---- MODULE Spec2Model ----
(***************************************************************************)
(* The indexing engine of code-indexer (CodeIndexer.ts): the in-flight map *)
(* and the admission gate of indexFile/doIndexFile, the batch loop of      *)
(* indexFiles, the temporal filter of search, the lazy purge, deletion and *)
(* reindexAll; and around it the file watcher (FileWatcher.ts), the walk   *)
(* of getAllFiles, generateEmbedding, and the startup trigger with the     *)
(* resolution of its flag (startup.ts, immediate-indexing.ts).             *)
(*                                                                         *)
(* One step of the model is the code that runs between two suspension      *)
(* points (await) of one async function; everything between two awaits is  *)
(* atomic in the single-threaded event loop.                               *)
(***************************************************************************)
EXTENDS Integers, Sequences, FiniteSets, TLC

(***************************************************************************)
(* Bounds of the model.                                                    *)
(***************************************************************************)
\* number of indexFile invocations in one behaviour
MaxCalls == 3
\* largest modification time a file reaches
MaxMtime == 2
\* number of indexFiles invocations in one behaviour
MaxBatches == 1
\* longest list handed to indexFiles
MaxList == 2
\* largest config.indexing.batchSize
MaxBatchSize == 2
\* config.qdrant.retries (upsert attempts)
qdrantRetries == 3
\* config.ollama.retries (embedding attempts)
ollamaRetries == 2

\* the last instant of the wall clock
MaxTime == 5
\* largest limit handed to search
MaxLimit == 2
\* config.indexing.ttlHours, in clock units
ttlMs == 2
\* purgeIntervalMs, in clock units
purgeIntervalMs == 2

\* the file paths handed to the engine
Paths == {"a", "b", "x"}
\* the paths config.watching.ignorePatterns matches
ignoredPaths == {"x"}
\* the paths that may name no file when indexFiles is handed them
MissingAtStart == {"b"}
\* the paths direct callers of indexFile use, and the files the environment touches
WatchedPaths == {"a", "x"}

Calls == 1..MaxCalls
Batches == 1..MaxBatches
NoRecord == [none |-> TRUE]
NoOutcome == [settled |-> FALSE]
\* no purge run logged yet (startedAt: when the last run started; last: how the
\* last finished run ended; swept: the FileRecords it removed)
NoTime == 0 - 1
NoPurgeLog == [startedAt |-> NoTime, last |-> "none", swept |-> 0]
\* the state document: absent, or one JSON.parse cannot read
NoDocument == [absent |-> TRUE]
CorruptDocument == [corrupt |-> TRUE]
\* number of deleteFileFromIndex invocations in one behaviour
MaxDeletes == 2
Deletes == 1..MaxDeletes
\* pc: idle, delete (the store's delete is requested), acking (the store has
\* applied it, its answer is under way), done; hadRecord and
\* hadPoint tell what a successful delete found for its path
IdleDelete == [pc |-> "idle", path |-> "a", fileId |-> <<>>, ok |-> TRUE,
               hadRecord |-> FALSE, hadPoint |-> FALSE]
\* pc: idle, glob (getAllFiles is running), indexing (indexFiles is running), done;
\* found is what getAllFiles resolved with, cleared the number of FileRecords
\* clearIncrementalState dropped, cause why a failed reindexAll failed
IdleReindex == [pc |-> "idle", found |-> <<>>, batch |-> 0, cleared |-> 0, ok |-> TRUE,
                cause |-> "none"]

VARIABLES
    calls,              \* one entry per indexFile invocation
    indexingQueue,      \* path -> the invocation whose doIndexFile promise is stored
    currentConcurrency, \* slots taken
    incrementalState,   \* path -> FileRecord
    stats,              \* IndexStats counters
    files,              \* the file system: exists, mtime, content
    store,              \* the vector store: fileId -> payload
    config,             \* incrementalEnabled, persistMetadata, batchSize, maxConcurrency
    batches,            \* one entry per indexFiles invocation
    stateDoc,           \* .indexer-state.json
    metaDoc,            \* .indexer-metadata.json
    now,                \* the wall clock (Date.now())
    search,             \* the search invocation
    isPurging,          \* a purge run is executing
    lastPurgeTime,      \* when the last purge run completed
    purgeRuns,          \* the performLazyPurge runs executing: the `lt` bound of each delete request
    purgeLog,           \* what the logger last recorded about a purge run
    collectionExists,   \* the vector store holds the collection
    deletes,            \* one entry per deleteFileFromIndex invocation
    reindex,            \* the reindexAll invocation
    diskWritable,       \* the state directory accepts writes and unlinks
    useAdvancedExclusions, \* config.watching.useAdvancedExclusions
    timers,             \* the timeouts FileWatcher has set
    debounceTimers,     \* FileWatcher.debounceTimers: file -> timeout (0: none)
    changedAt,          \* file -> when it was last added or changed on disk
    indexCalls,         \* file -> the instants at which the watcher called indexFile
    deleteCalls,        \* file -> the deleteFileFromIndex calls the watcher made
    embedding,          \* the generateEmbedding invocation
    walk,               \* the getAllFiles invocation and the tree it walks
    env,                \* process.env: the three immediate-indexing variables
    startupTriggered,   \* startup.ts: the module-level flag
    startup             \* what the onStartup calls did so far

searchVars == <<now, search, isPurging, lastPurgeTime, purgeRuns, purgeLog, collectionExists>>

watcherVars == <<useAdvancedExclusions, timers, debounceTimers, changedAt, indexCalls,
                 deleteCalls>>

startupVars == <<env, startupTriggered, startup>>

hostVars == <<watcherVars, embedding, walk, startupVars>>

maintVars == <<deletes, reindex, diskWritable, hostVars>>

vars == <<calls, indexingQueue, currentConcurrency, incrementalState, stats,
          files, store, config, batches, stateDoc, metaDoc, searchVars, maintVars>>

(***************************************************************************)
(* The file watcher (FileWatcher.ts) and the files it watches.             *)
(***************************************************************************)
\* number of timeouts the watcher sets in one behaviour
MaxTimers == 3
\* config.watching.debounceMs, in clock units
debounceMs == 2
Timers == 1..MaxTimers
\* the files of the watched tree, by directory and base name
TreeFiles == {[dir |-> "src", name |-> "a.ts"], [dir |-> "node_modules", name |-> "README.md"]}
\* pc: idle (not set yet), pending, running (fired, its indexFile not settled),
\* done, cleared
IdleTimer == [pc |-> "idle", file |-> [dir |-> "src", name |-> "a.ts"], due |-> 0]

\* pc: idle, request (ollama's embeddings is awaited), done; attempts counts
\* the requests sent, failures the attempts that ended in the catch block,
\* sleeps the backoff delays awaited, causes the messages the catch block saw;
\* retries is config.ollama.retries, error what a failed call threw
IdleEmbedding == [pc |-> "idle", dimensions |-> 1, attempts |-> 0, failures |-> 0,
                  response |-> [missing |-> TRUE, v |-> <<>>], result |-> <<>>, ok |-> FALSE,
                  retries |-> [set |-> TRUE, n |-> ollamaRetries], sleeps |-> 0,
                  causes |-> <<>>, error |-> [attempts |-> 0, message |-> "none"]]
\* pc: idle, glob, readdir (suspended in it), done; frames are the
\* processDirectory activations, files the paths pushed so far, globFailed
\* tells that the glob rejected, rejected that getAllFiles did; advanced tells
\* that this.fileMatcher is set, loading that doInitializeExclusionSystem is
\* awaiting the exclusion configuration; excluded are the entries the matcher
\* excludes, legacy those config.watching.ignorePatterns match, passed the
\* files a doIndexFile took past its exclusion check
IdleWalk == [pc |-> "idle", advanced |-> TRUE, readable |-> {}, excluded |-> {},
             frames |-> <<>>, files |-> <<>>, result |-> <<>>, globFailed |-> FALSE,
             rejected |-> FALSE, loading |-> FALSE, legacy |-> {}, passed |-> {}]
\* an environment variable that is not set
Unset == [set |-> FALSE]
NoEnv == [IMMEDIATE_INDEXING_ENABLED |-> Unset, IMMEDIATE_INDEXING |-> Unset,
          START_INDEXING_ON_STARTUP |-> Unset]
\* calls: onStartup calls made (each has returned); reindexAllCalls: calls of
\* server.reindexAll; background: none, running, completed, failed; flag: the
\* last resolution with the environment it read; threw: an onStartup call rejected
IdleStartup == [calls |-> 0, reindexAllCalls |-> 0, background |-> "none",
                flag |-> [resolved |-> FALSE], invoked |-> FALSE, threw |-> FALSE]

WatcherIdle ==
    /\ useAdvancedExclusions = TRUE
    /\ timers = [t \in Timers |-> IdleTimer]
    /\ debounceTimers = [f \in TreeFiles |-> 0]
    /\ changedAt = [f \in TreeFiles |-> NoTime]
    /\ indexCalls = [f \in TreeFiles |-> <<>>]
    /\ deleteCalls = [f \in TreeFiles |-> 0]

StartupIdle ==
    /\ env = NoEnv
    /\ startupTriggered = FALSE
    /\ startup = IdleStartup

HostInit ==
    /\ WatcherIdle
    /\ embedding = IdleEmbedding
    /\ walk = IdleWalk
    /\ StartupIdle

\* pc: idle (slot unused), waiting (in waitForSlot), admitted, needs, read,
\* embed, upsert (doIndexFile suspended there), acking (the store has applied
\* the upsert, its answer is under way), follow (handed the stored promise),
\* done (settled). embeds/upserts count the requests sent, upserted
\* tells that an upsert was acknowledged, result is the last info-level log line.
IdleCall == [pc |-> "idle", path |-> "a", leader |-> 0, parent |-> 0,
             embeds |-> 0, upserts |-> 0, upserted |-> FALSE, lastError |-> FALSE,
             checksum |-> 0, lastModified |-> 0, indexedAt |-> 0,
             result |-> "none", outcome |-> NoOutcome]

\* a payload or record field: an ISO date string, another string, a number, or absent
toISOString(t) == [kind |-> "iso", t |-> t]
TextValue == [kind |-> "text", t |-> 0]
AbsentValue == [kind |-> "absent", t |-> 0]
NumberValue(t) == [kind |-> "number", t |-> t]

parseDateAnyString(v) == [finite |-> v.kind \in {"iso", "text"}, v |-> v.t]

\* typeof v === 'string' ? Date.parse(v) : NaN
parseDate(v) == IF v.kind = "iso" THEN [finite |-> TRUE, v |-> v.t] ELSE [finite |-> FALSE, v |-> 0]

\* this.maxConcurrency = config.indexing.maxConcurrency
maxConcurrency == config.maxConcurrency

generateFileIdAllocated(p) == <<"id", p, stats.indexedFiles>>

\* generateFileId: the md5 of the path string laid out as a UUID (the digest is
\* kept abstract; the last component stands for anything else it could read)
generateFileId(p) == <<"id", p, 0>>

\* generateFileChecksum: sha256 of the content
generateFileChecksum(content) == <<"sha", content>>

shouldExcludeFileNever(p) == FALSE

\* shouldExcludeFile, legacy branch: matchLegacyPattern over config.watching.ignorePatterns
shouldExcludeFile(p) == p \in ignoredPaths

slotAvailableOffByOne(cc) == cc <= maxConcurrency

\* waitForSlot's loop condition, negated
slotAvailable(cc) == cc < maxConcurrency

releaseSlotForgotten(cc) == cc

\* releaseSlot
releaseSlot(cc) == IF cc - 1 > 0 THEN cc - 1 ELSE 0

existingPromiseIgnored(queue, p) == 0

\* indexFile: the in-flight promise stored for p (0: none)
existingPromise(queue, p) == queue[p]

needsIndexingAlways(p) == TRUE

\* needsIndexing
needsIndexing(p) ==
    IF ~config.incrementalEnabled THEN TRUE
    ELSE IF ~files[p].exists THEN TRUE
    ELSE IF incrementalState[p] = NoRecord THEN TRUE
    ELSE incrementalState[p].lastModified # files[p].mtime

\* the error doIndexFile's catch block throws: `Failed to index file ${filePath}: ...`
IndexError(p, cause) == [settled |-> TRUE, ok |-> FALSE, file |-> p, cause |-> cause]

Resolved == [settled |-> TRUE, ok |-> TRUE]

InFlight(c) == calls[c].pc \notin {"idle", "done"}
Owner(c) == calls[c].pc # "idle" /\ calls[c].leader = c
Follower(c) == calls[c].pc # "idle" /\ calls[c].leader # c
Admitted(c) == calls[c].pc \in {"admitted", "needs", "read", "embed", "upsert", "acking"}

\* the slots of `calls` not yet used, and those the running batches still need
FreeCalls == {c \in Calls : calls[c].pc = "idle"}
NextFree(cs) == CHOOSE c \in Calls : cs[c].pc = "idle" /\ \A d \in Calls : cs[d].pc = "idle" => c <= d
RECURSIVE SumOver(_, _)
SumOver(S, f) == IF S = {} THEN 0 ELSE LET x == CHOOSE y \in S : TRUE IN f[x] + SumOver(S \ {x}, f)
Reserved == SumOver({b \in Batches : batches[b].pc = "running"},
                    [b \in Batches |-> Len(batches[b].input) + 1 - batches[b].next])

(***************************************************************************)
(* indexFile(p), up to its first suspension: either the stored promise is  *)
(* returned, or doIndexFile starts (waitForSlot takes a slot at once when  *)
(* one is free) and its promise is stored.                                 *)
(***************************************************************************)
indexFile(st, c, p, par) ==
    IF existingPromise(st.queue, p) # 0
    THEN [st EXCEPT !.calls[c] = [IdleCall EXCEPT !.pc = "follow", !.path = p,
                                     !.leader = existingPromise(st.queue, p), !.parent = par]]
    ELSE LET admit == slotAvailable(st.cc)
         IN [calls |-> [st.calls EXCEPT ![c] = [IdleCall EXCEPT
                            !.pc = IF admit THEN "admitted" ELSE "waiting",
                            !.path = p, !.leader = c, !.parent = par]],
             queue |-> [st.queue EXCEPT ![p] = c],
             cc |-> IF admit THEN st.cc + 1 ELSE st.cc]

EngineSt == [calls |-> calls, queue |-> indexingQueue, cc |-> currentConcurrency]

\* input: the list; next: index of the first path of the next batch; pending: the
\* wrappers of the current batch not yet settled; overlapped, failedAtReturn:
\* whether another invocation was in flight during this one, and stats.failedFiles
\* when indexFiles returned
IdleBatch == [pc |-> "idle", input |-> <<>>, next |-> 1, pending |-> 0,
              successful |-> <<>>, failed |-> <<>>,
              overlapped |-> FALSE, failedAtReturn |-> 0]

pushResultAsSuccess(bs, par, p, outcome) ==
    IF par = 0 THEN bs
    ELSE [bs EXCEPT ![par].successful = Append(@, p), ![par].pending = @ - 1]

\* the wrapper of indexFiles' batch.map: the settled path goes to one of the two lists
pushResult(bs, par, p, outcome) ==
    IF par = 0 THEN bs
    ELSE [bs EXCEPT ![par].successful = IF outcome.ok THEN Append(@, p) ELSE @,
                    ![par].failed = IF outcome.ok THEN @ ELSE Append(@, p),
                    ![par].pending = @ - 1]

\* the calls that were handed c's promise, in the order they were made
FollowersOf(c) == {f \in Calls : calls[f].pc = "follow" /\ calls[f].leader = c}
RECURSIVE pushAll(_, _, _)
pushAll(bs, S, outcome) ==
    IF S = {} THEN bs
    ELSE LET f == CHOOSE x \in S : \A y \in S : x <= y
         IN pushAll(pushResult(bs, calls[f].parent, calls[f].path, outcome), S \ {f}, outcome)

\* pc: idle, validate, embed, query (suspended there), done; queries counts the
\* search requests sent to the store, asked is the number of candidates
\* requested, raw is what the store returned, filtered
\* what the temporal filter kept and filteredAt the clock when it ran; cause tells
\* where a failed search failed
IdleSearch == [pc |-> "idle", limit |-> 0, embeds |-> 0, queries |-> 0, asked |-> 0, raw |-> <<>>,
               filtered |-> <<>>, results |-> <<>>, filteredAt |-> 0, ok |-> TRUE,
               cause |-> "none", purgeStarted |-> FALSE]

Init ==
    /\ calls = [c \in Calls |-> IdleCall]
    /\ indexingQueue = [p \in Paths |-> 0]
    /\ currentConcurrency = 0
    /\ incrementalState = [p \in Paths |-> NoRecord]
    /\ stats = [totalFiles |-> 0, indexedFiles |-> 0, failedFiles |-> 0]
    /\ files = [p \in Paths |-> [exists |-> TRUE, mtime |-> 1, content |-> 1]]
    /\ store = [p \in Paths |-> NoRecord]
    /\ config \in [incrementalEnabled : BOOLEAN, persistMetadata : {TRUE}, batchSize : {1},
                   validationEnabled : {TRUE},
                   maxConcurrency : {1}]
    /\ batches = [b \in Batches |-> IdleBatch]
    /\ stateDoc = [p \in Paths |-> NoRecord]
    /\ metaDoc = stats
    /\ now = 0
    /\ search = IdleSearch
    /\ isPurging = FALSE
    /\ lastPurgeTime = 0
    /\ purgeRuns = <<>>
    /\ purgeLog = NoPurgeLog
    /\ deletes = [d \in Deletes |-> IdleDelete]
    /\ reindex = IdleReindex
    /\ diskWritable = TRUE
    /\ HostInit
    /\ collectionExists = TRUE

\* another invocation starts while these batches run
markOverlapped(bs) == [b \in Batches |-> IF bs[b].pc = "running"
                                          THEN [bs[b] EXCEPT !.overlapped = TRUE] ELSE bs[b]]

\* a caller (the transport layer or the file watcher) invokes indexFile(p)
CallIndexFile(p) ==
    /\ Cardinality(FreeCalls) > Reserved
    /\ LET st == indexFile(EngineSt, NextFree(calls), p, 0)
       IN /\ calls' = st.calls
          /\ indexingQueue' = st.queue
          /\ currentConcurrency' = st.cc
    /\ batches' = markOverlapped(batches)
    /\ UNCHANGED <<incrementalState, stats, files, store, config, stateDoc, metaDoc>>
    /\ UNCHANGED <<searchVars, maintVars>>

\* waitForSlot: the poll finds a free slot
Admit(c) ==
    /\ calls[c].pc = "waiting"
    /\ slotAvailable(currentConcurrency)
    /\ currentConcurrency' = currentConcurrency + 1
    /\ calls' = [calls EXCEPT ![c].pc = "admitted"]
    /\ UNCHANGED <<indexingQueue, incrementalState, stats, files, store, config, batches,
                   stateDoc, metaDoc>>
    /\ UNCHANGED <<searchVars, maintVars>>

countFailureForgotten(st) == st

\* the failure counter of doIndexFile's catch block
countFailure(st) == [st EXCEPT !.failedFiles = @ + 1]

\* the success counters of doIndexFile
countSuccess(st) == [st EXCEPT !.indexedFiles = @ + 1]

\* getIndexingStatus
getIndexingStatus ==
    [queueSize |-> Cardinality({p \in Paths : indexingQueue[p] # 0}),
     currentConcurrency |-> currentConcurrency,
     maxConcurrency |-> maxConcurrency]

dequeueForgotten(queue, p) == queue

\* indexFile's finally: the map entry of the settled path is deleted
dequeue(queue, p) == [queue EXCEPT ![p] = 0]

(***************************************************************************)
(* doIndexFile settles. Its finally releases the slot; the reactions of    *)
(* its promise run in the same turn of the event loop: indexFile's finally *)
(* deletes the map entry, every caller that was handed the promise settles *)
(* as it did, and the wrappers of indexFiles record the paths.             *)
(***************************************************************************)
Settle(c, outcome, why, acked) ==
    /\ currentConcurrency' = releaseSlot(currentConcurrency)
    /\ indexingQueue' = dequeue(indexingQueue, calls[c].path)
    /\ calls' = [d \in Calls |->
                    IF d = c THEN [calls[c] EXCEPT !.pc = "done", !.result = why, !.upserted = acked,
                                      !.lastError = FALSE, !.checksum = 0,
                                      !.lastModified = 0, !.indexedAt = 0,
                                      !.outcome = outcome]
                    ELSE IF d \in FollowersOf(c)
                         THEN [calls[d] EXCEPT !.pc = "done", !.outcome = outcome]
                         ELSE calls[d]]
    /\ batches' = pushAll(pushResult(batches, calls[c].parent, calls[c].path, outcome),
                          FollowersOf(c), outcome)

\* doIndexFile leaves through catch and finally: count the failure, reject
Fail(c, cause) ==
    /\ stats' = countFailure(stats)
    /\ Settle(c, IndexError(calls[c].path, cause), "failed", FALSE)

\* doIndexFile returns early through finally
Skip(c, why) ==
    /\ Settle(c, Resolved, why, FALSE)
    /\ UNCHANGED stats

\* doIndexFile after admission: existsSync, then shouldExcludeFile
CheckFile(c) ==
    /\ calls[c].pc = "admitted"
    /\ LET p == calls[c].path
       IN IF ~files[p].exists THEN Fail(c, "missing")
          ELSE IF shouldExcludeFile(p) THEN Skip(c, "excluded")
          ELSE /\ calls' = [calls EXCEPT ![c].pc = "needs"]
               /\ UNCHANGED <<stats, currentConcurrency, indexingQueue, batches>>
    /\ UNCHANGED <<incrementalState, files, store, config, stateDoc, metaDoc>>
    /\ UNCHANGED <<searchVars, maintVars>>

\* doIndexFile: needsIndexing has answered
CheckNeeds(c) ==
    /\ calls[c].pc = "needs"
    /\ IF ~needsIndexing(calls[c].path) THEN Skip(c, "unchanged")
       ELSE /\ calls' = [calls EXCEPT ![c].pc = "read"]
            /\ UNCHANGED <<stats, currentConcurrency, indexingQueue, batches>>
    /\ UNCHANGED <<incrementalState, files, store, config, stateDoc, metaDoc>>
    /\ UNCHANGED <<searchVars, maintVars>>

\* doIndexFile: readFile has answered; the checksum is taken and the first
\* embedding request is sent
ReadFile(c) ==
    /\ calls[c].pc = "read"
    /\ LET p == calls[c].path
       IN IF ~files[p].exists THEN Fail(c, "read")
          ELSE /\ calls' = [calls EXCEPT ![c].pc = "embed", ![c].embeds = 1,
                                ![c].checksum = generateFileChecksum(files[p].content)]
               /\ UNCHANGED <<stats, currentConcurrency, indexingQueue, batches>>
    /\ UNCHANGED <<incrementalState, files, store, config, stateDoc, metaDoc>>
    /\ UNCHANGED <<searchVars, maintVars>>

\* generateEmbedding: one attempt has answered. After the last failure
\* doIndexFile fails; after a success it stats the file, builds the payload and
\* sends the first upsert.
EmbedReturn(c, ok) ==
    /\ calls[c].pc = "embed"
    /\ LET p == calls[c].path
       IN IF ~ok
          THEN IF calls[c].embeds < ollamaRetries
               THEN /\ calls' = [calls EXCEPT ![c].embeds = @ + 1]
                    /\ UNCHANGED <<stats, currentConcurrency, indexingQueue, batches>>
               ELSE Fail(c, "embed")
          ELSE IF ~files[p].exists THEN Fail(c, "stat")
          ELSE /\ calls' = [calls EXCEPT ![c].pc = "upsert", ![c].upserts = 1,
                                ![c].lastModified = files[p].mtime,
                                ![c].indexedAt = now]
               /\ UNCHANGED <<stats, currentConcurrency, indexingQueue, batches>>
    /\ UNCHANGED <<incrementalState, files, store, config, stateDoc, metaDoc>>
    /\ UNCHANGED <<searchVars, maintVars>>

\* the FileRecord doIndexFile writes
FileRecord(c) == [checksum |-> calls[c].checksum, lastModified |-> calls[c].lastModified,
                  indexed |-> toISOString(calls[c].indexedAt),
                  createdAt |-> toISOString(calls[c].indexedAt),
                  expiresAt |-> toISOString(calls[c].indexedAt + ttlMs)]

\* the payload doIndexFile upserts
Payload(c) == [id |-> generateFileId(calls[c].path), checksum |-> calls[c].checksum,
               lastModified |-> calls[c].lastModified,
               indexed |-> toISOString(calls[c].indexedAt),
               createdAt |-> toISOString(calls[c].indexedAt),
               expiresAt |-> toISOString(calls[c].indexedAt + ttlMs)]

\* the test after the retry loop: `if (lastError) throw`
persistFailed(lastError) == lastError

\* doIndexFile's retry loop, from the answer of an upsert attempt on: after an
\* acknowledgement the loop is left and the FileRecord written (or the stale
\* lastError thrown), after a failure the next attempt is sent or the call fails
upsertAnswered(c, ok) ==
    LET p == calls[c].path
    IN IF ok
       THEN IF persistFailed(calls[c].lastError)
            THEN /\ stats' = countFailure(stats)
                 /\ Settle(c, IndexError(p, "upsert"), "failed", TRUE)
                 /\ UNCHANGED incrementalState
            ELSE /\ incrementalState' = [incrementalState EXCEPT ![p] = FileRecord(c)]
                 /\ stats' = countSuccess(stats)
                 /\ Settle(c, Resolved, "indexed", TRUE)
       ELSE /\ UNCHANGED incrementalState
            /\ IF calls[c].upserts < qdrantRetries
               THEN /\ calls' = [calls EXCEPT ![c].upserts = @ + 1, ![c].lastError = TRUE]
                    /\ UNCHANGED <<stats, currentConcurrency, indexingQueue, batches>>
               ELSE Fail(c, "upsert")

\* doIndexFile's retry loop: one upsert attempt has answered (the store applies
\* an upsert it acknowledges)
UpsertReturn(c, ok) ==
    /\ calls[c].pc = "upsert"
    /\ store' = IF ok THEN [store EXCEPT ![calls[c].path] = Payload(c)] ELSE store
    /\ upsertAnswered(c, ok)
    /\ UNCHANGED <<files, config, stateDoc, metaDoc>>
    /\ UNCHANGED <<searchVars, maintVars>>

\* the environment writes a file: new content, later modification time
FileWrite(p) ==
    /\ files[p].mtime < MaxMtime
    /\ files' = [files EXCEPT ![p] = [exists |-> TRUE, mtime |-> @.mtime + 1,
                                      content |-> @.content + 1]]
    /\ UNCHANGED <<calls, indexingQueue, currentConcurrency, incrementalState, stats, store,
                   config, batches, stateDoc, metaDoc>>
    /\ UNCHANGED <<searchVars, maintVars>>

\* the environment removes a file
FileUnlink(p) ==
    /\ files[p].exists
    /\ files' = [files EXCEPT ![p].exists = FALSE]
    /\ UNCHANGED <<calls, indexingQueue, currentConcurrency, incrementalState, stats, store,
                   config, batches, stateDoc, metaDoc>>
    /\ UNCHANGED <<searchVars, maintVars>>

savedStateNever(doc, st, persist) == doc

\* saveIncrementalState / saveMetadata: a write that fails is logged and the
\* document stays as it was
savedState(doc, st, persist) == IF persist /\ diskWritable THEN st ELSE doc

resetStatsKeepingFailures(st, n) == [st EXCEPT !.totalFiles = n, !.indexedFiles = 0]

\* indexFiles: the batch-scoped counters are reset
resetStats(st, n) == [totalFiles |-> n, indexedFiles |-> 0, failedFiles |-> 0]

\* batch.map(...): indexFile is invoked for input[i..j], one after the other,
\* before indexFiles suspends on Promise.all
RECURSIVE issue(_, _, _, _, _)
issue(st, input, i, j, b) ==
    IF i > j THEN st
    ELSE issue(indexFile(st, NextFree(st.calls), input[i], b), input, i + 1, j, b)

Min(x, y) == IF x <= y THEN x ELSE y

batchEndWholeList(input, i) == Len(input)

\* the end of the batch taken from position i
batchEnd(input, i) == Min(i + config.batchSize - 1, Len(input))

\* a list naming no path twice
NoRepeat(l) == \A i, j \in DOMAIN l : l[i] = l[j] => i = j

\* the lists a caller hands to indexFiles
RECURSIVE ListsOf(_)
ListsOf(n) == IF n = 0 THEN {<<>>}
              ELSE ListsOf(n - 1) \cup {Append(l, p) : l \in {m \in ListsOf(n - 1) : Len(m) = n - 1},
                                                       p \in Paths}

\* indexFiles(input) up to its first suspension, the two documents apart: reset
\* the counters, invoke indexFile for the first batch
enterIndexFiles(b, input) ==
    /\ stats' = resetStats(stats, Len(input))
    /\ LET busy == (\E c \in Calls : InFlight(c)) \/ (\E a \in Batches : batches[a].pc = "running")
           st == issue(EngineSt, input, 1, batchEnd(input, 1), b)
           done == input = <<>>
       IN /\ calls' = st.calls
          /\ indexingQueue' = st.queue
          /\ currentConcurrency' = st.cc
          /\ batches' = [markOverlapped(batches) EXCEPT ![b] =
                 [IdleBatch EXCEPT !.pc = IF done THEN "done" ELSE "running",
                                   !.input = input, !.next = batchEnd(input, 1) + 1,
                                   !.pending = batchEnd(input, 1), !.overlapped = busy,
                                   !.failedAtReturn = 0]]

\* indexFiles(input) up to its first suspension; an empty list saves the two
\* documents and returns at once
StartIndexFiles(b, input) ==
    /\ batches[b].pc = "idle"
    /\ \A a \in Batches : a < b => batches[a].pc # "idle"
    /\ Len(input) <= Cardinality(FreeCalls) - Reserved
    /\ enterIndexFiles(b, input)
    /\ stateDoc' = savedState(stateDoc, incrementalState, input = <<>> /\ config.persistMetadata)
    /\ metaDoc' = savedState(metaDoc, stats', input = <<>> /\ config.persistMetadata)
    /\ UNCHANGED <<incrementalState, files, store, config>>
    /\ UNCHANGED <<searchVars, maintVars>>

\* indexFiles after Promise.all of a batch: invoke indexFile for the next batch,
\* or save both documents and return the two lists
AdvanceBatch(b) ==
    /\ batches[b].pc = "running"
    /\ batches[b].pending = 0
    /\ LET input == batches[b].input
           i == batches[b].next
       IN IF i <= Len(input)
          THEN LET st == issue(EngineSt, input, i, batchEnd(input, i), b)
               IN /\ calls' = st.calls
                  /\ indexingQueue' = st.queue
                  /\ currentConcurrency' = st.cc
                  /\ batches' = [batches EXCEPT ![b].next = batchEnd(input, i) + 1,
                                                ![b].pending = batchEnd(input, i) + 1 - i]
                  /\ UNCHANGED <<stateDoc, metaDoc>>
          ELSE /\ batches' = [batches EXCEPT ![b].pc = "done",
                                            ![b].failedAtReturn = stats.failedFiles]
               /\ stateDoc' = savedState(stateDoc, incrementalState, config.persistMetadata)
               /\ metaDoc' = savedState(metaDoc, stats, config.persistMetadata)
               /\ UNCHANGED <<calls, indexingQueue, currentConcurrency>>
    /\ UNCHANGED <<incrementalState, stats, files, store, config>>
    /\ UNCHANGED <<searchVars, maintVars>>

Next ==
    \/ \E p \in WatchedPaths : CallIndexFile(p)
    \/ \E c \in Calls : Admit(c)
    \/ \E c \in Calls : CheckFile(c)
    \/ \E c \in Calls : CheckNeeds(c)
    \/ \E c \in Calls : ReadFile(c)
    \/ \E c \in Calls, ok \in BOOLEAN : EmbedReturn(c, ok)
    \/ \E c \in Calls, ok \in BOOLEAN : UpsertReturn(c, ok)
    \/ \E p \in WatchedPaths : FileWrite(p)
    \/ \E p \in WatchedPaths : FileUnlink(p)

Spec == Init /\ [][Next]_vars

\* the engine with indexFiles: any configuration of batch size and persistence
InitBatch ==
    /\ calls = [c \in Calls |-> IdleCall]
    /\ indexingQueue = [p \in Paths |-> 0]
    /\ currentConcurrency = 0
    /\ incrementalState = [p \in Paths |-> NoRecord]
    /\ stats = [totalFiles |-> 0, indexedFiles |-> 0, failedFiles |-> 0]
    /\ \E gone \in SUBSET MissingAtStart :
          files = [p \in Paths |-> [exists |-> p \notin gone, mtime |-> 1, content |-> 1]]
    /\ store = [p \in Paths |-> NoRecord]
    /\ config \in [incrementalEnabled : {TRUE}, persistMetadata : BOOLEAN,
                   batchSize : 1..MaxBatchSize, validationEnabled : {TRUE},
                   maxConcurrency : {1}]
    /\ batches = [b \in Batches |-> IdleBatch]
    /\ stateDoc = [p \in Paths |-> NoRecord]
    /\ metaDoc = stats
    /\ now = 0
    /\ search = IdleSearch
    /\ isPurging = FALSE
    /\ lastPurgeTime = 0
    /\ purgeRuns = <<>>
    /\ purgeLog = NoPurgeLog
    /\ deletes = [d \in Deletes |-> IdleDelete]
    /\ reindex = IdleReindex
    /\ diskWritable = TRUE
    /\ HostInit
    /\ collectionExists = TRUE

NextBatch ==
    \/ \E b \in Batches, input \in ListsOf(MaxList) : StartIndexFiles(b, input)
    \/ \E b \in Batches : AdvanceBatch(b)
    \/ \E p \in WatchedPaths : CallIndexFile(p)
    \/ \E c \in Calls : Admit(c)
    \/ \E c \in Calls : CheckFile(c)
    \/ \E c \in Calls : CheckNeeds(c)
    \/ \E c \in Calls : ReadFile(c)
    \/ \E c \in Calls, ok \in BOOLEAN : EmbedReturn(c, ok)
    \/ \E c \in Calls, ok \in BOOLEAN : UpsertReturn(c, ok)

SpecBatch == InitBatch /\ [][NextBatch]_vars

(***************************************************************************)
(* search, validateIndexState, triggerLazyPurge and performLazyPurge.      *)
(***************************************************************************)
Max(x, y) == IF x >= y THEN x ELSE y

\* the variables search and the purge leave alone
engineVars == <<calls, indexingQueue, currentConcurrency, stats, files, config, batches,
                metaDoc, maintVars>>

\* the limit search hands to the store
fetchLimit(limit) == Max(limit * 2, limit + 5)

isFreshIgnoringExpiry(payload, t) ==
    LET createdAt == parseDate(payload.createdAt)
    IN createdAt.finite /\ ~(t - createdAt.v > ttlMs)

isFreshIgnoringWindow(payload, t) ==
    LET createdAt == parseDate(payload.createdAt)
        expiresAt == parseDate(payload.expiresAt)
    IN createdAt.finite /\ ~(expiresAt.finite /\ expiresAt.v < t)

\* the temporal filter of search, at clock t (freshnessWindowMs is ttlHours in ms)
isFresh(payload, t) ==
    LET createdAt == parseDate(payload.createdAt)
        expiresAt == parseDate(payload.expiresAt)
    IN IF ~createdAt.finite THEN FALSE
       ELSE IF expiresAt.finite /\ expiresAt.v < t THEN FALSE
       ELSE IF t - createdAt.v > ttlMs THEN FALSE
       ELSE TRUE

\* rawResults.filter(...)
filterResults(raw, t) == SelectSeq(raw, LAMBDA r : isFresh(r, t))

sliceNothingCut(s, end) == s

\* Array.prototype.slice(0, end)
slice(s, end) ==
    SubSeq(s, 1, IF end < 0 THEN Max(Len(s) + end, 0) ELSE Min(end, Len(s)))

\* filtered.slice(0, limit)
finalResults(raw, limit, t) == slice(filterResults(raw, t), limit)

\* what the store may answer to a search for k candidates: the points it holds,
\* in any similarity order, cut to k
StoredPaths == {p \in Paths : store[p] # NoRecord}
RankedAnswers(k) ==
    LET n == Min(k, Cardinality(StoredPaths))
    IN {[i \in 1..n |-> store[f[i]]] :
           f \in {g \in [1..n -> StoredPaths] : \A i, j \in 1..n : g[i] = g[j] => i = j}}

\* triggerLazyPurge's test
purgeDue(t) == ~isPurging /\ ~(t - lastPurgeTime < purgeIntervalMs)

expiredRecordWhatever(rec, t) == rec # NoRecord

\* the sweep of performLazyPurge over the FileRecords, at clock t
expiredRecord(rec, t) ==
    rec # NoRecord /\ parseDate(rec.expiresAt).finite /\ parseDate(rec.expiresAt).v < t

\* the store's delete by filter: expiresAt lower than the bound
expiredPoint(pt, bound) ==
    pt # NoRecord /\ parseDate(pt.expiresAt).finite /\ parseDate(pt.expiresAt).v < bound

purgeFinishedStillFlagged(purging) == purging

\* performLazyPurge's finally
purgeFinished(purging) == FALSE

\* search's catch: `Search failed: ...`
searchFailed(cause) == [search EXCEPT !.pc = "done", !.ok = FALSE, !.cause = cause]

\* search(query, limit) up to its first suspension
StartSearch(limit) ==
    /\ search.pc \in {"idle", "done"}
    /\ search' = [IdleSearch EXCEPT !.limit = limit,
                     !.pc = IF config.validationEnabled THEN "validate" ELSE "embed",
                     !.embeds = IF config.validationEnabled THEN 0 ELSE 1]
    /\ UNCHANGED <<engineVars, incrementalState, store, stateDoc, now, isPurging,
                   lastPurgeTime, purgeRuns, purgeLog, collectionExists>>

validatedWhateverListed(ok) == ok

\* validateIndexState's verdict: both requests answered and the collection is
\* among those listed
validated(ok) == ok /\ collectionExists

\* validateIndexState: getCollections and getCollection have answered (ok), or
\* one of them failed
ValidateReturn(ok) ==
    /\ search.pc = "validate"
    /\ search' = IF validated(ok)
                 THEN [search EXCEPT !.pc = "embed", !.embeds = 1]
                 ELSE searchFailed("validate")
    /\ UNCHANGED <<engineVars, incrementalState, store, stateDoc, now, isPurging,
                   lastPurgeTime, purgeRuns, purgeLog, collectionExists>>

\* generateEmbedding(query): one attempt has answered; after a success the
\* store's search is requested
SearchEmbedReturn(ok) ==
    /\ search.pc = "embed"
    /\ search' = IF ok THEN [search EXCEPT !.pc = "query", !.queries = 1,
                                               !.asked = fetchLimit(search.limit)]
                 ELSE IF search.embeds < ollamaRetries THEN [search EXCEPT !.embeds = @ + 1]
                 ELSE searchFailed("embed")
    /\ UNCHANGED <<engineVars, incrementalState, store, stateDoc, now, isPurging,
                   lastPurgeTime, purgeRuns, purgeLog, collectionExists>>

\* the store's search has failed: search rejects
QueryFails ==
    /\ search.pc = "query"
    /\ search' = searchFailed("query")
    /\ UNCHANGED <<engineVars, incrementalState, store, stateDoc, now, isPurging,
                   lastPurgeTime, purgeRuns, purgeLog, collectionExists>>

\* the store's search has answered: filter, cut to limit, triggerLazyPurge (which
\* runs performLazyPurge up to its delete request), return
QueryReturn ==
    /\ search.pc = "query"
    /\ \E raw \in RankedAnswers(search.asked) :
          search' = [search EXCEPT !.pc = "done", !.raw = raw, !.filteredAt = now,
                                  !.filtered = filterResults(raw, now),
                                  !.results = finalResults(raw, search.limit, now),
                                  !.purgeStarted = purgeDue(now)]
    /\ isPurging' = (isPurging \/ purgeDue(now))
    /\ purgeRuns' = IF purgeDue(now) THEN Append(purgeRuns, now) ELSE purgeRuns
    /\ purgeLog' = IF purgeDue(now) THEN [purgeLog EXCEPT !.startedAt = now] ELSE purgeLog
    /\ UNCHANGED <<engineVars, incrementalState, store, stateDoc, now, lastPurgeTime,
                   collectionExists>>

\* performLazyPurge: the store's delete has answered (ok) or failed
PurgeReturn(ok) ==
    /\ purgeRuns # <<>>
    /\ purgeRuns' = Tail(purgeRuns)
    /\ isPurging' = purgeFinished(isPurging)
    /\ purgeLog' = [purgeLog EXCEPT
                       !.last = IF ok THEN "completed" ELSE "failed",
                       !.swept = IF ok THEN Cardinality({p \in Paths :
                                                expiredRecord(incrementalState[p], now)})
                                 ELSE 0]
    /\ IF ok
       THEN /\ store' = [p \in Paths |-> IF expiredPoint(store[p], Head(purgeRuns))
                                          THEN NoRecord ELSE store[p]]
            /\ incrementalState' = [p \in Paths |-> IF expiredRecord(incrementalState[p], now)
                                                     THEN NoRecord ELSE incrementalState[p]]
            /\ stateDoc' = savedState(stateDoc, incrementalState',
                                      incrementalState' # incrementalState
                                         /\ config.persistMetadata)
            /\ lastPurgeTime' = now
       ELSE UNCHANGED <<store, incrementalState, stateDoc, lastPurgeTime>>
    /\ UNCHANGED <<engineVars, now, search, collectionExists>>

\* time passes
Tick ==
    /\ now < MaxTime
    /\ now' = now + 1
    /\ UNCHANGED <<engineVars, incrementalState, store, stateDoc, search, isPurging,
                   lastPurgeTime, purgeRuns, purgeLog, collectionExists>>

\* the points and records a search may meet: written by this engine at the start
\* of the clock, or carrying other temporal fields
SamplePoint(p, createdAt, expiresAt) ==
    [id |-> generateFileId(p), checksum |-> generateFileChecksum(1), lastModified |-> 1,
     indexed |-> createdAt, createdAt |-> createdAt, expiresAt |-> expiresAt]
SamplePoints(p) ==
    {SamplePoint(p, c, e) :
        c \in {toISOString(purgeIntervalMs), TextValue, AbsentValue, NumberValue(purgeIntervalMs)},
        e \in {toISOString(purgeIntervalMs + 1), toISOString(purgeIntervalMs + ttlMs),
               TextValue, AbsentValue}}
SampleRecord(expiresAt) ==
    [checksum |-> generateFileChecksum(1), lastModified |-> 1,
     indexed |-> toISOString(purgeIntervalMs), createdAt |-> toISOString(purgeIntervalMs),
     expiresAt |-> expiresAt]

InitSearch ==
    /\ calls = [c \in Calls |-> IdleCall]
    /\ indexingQueue = [p \in Paths |-> 0]
    /\ currentConcurrency = 0
    /\ stats = [totalFiles |-> 0, indexedFiles |-> 0, failedFiles |-> 0]
    /\ files = [p \in Paths |-> [exists |-> TRUE, mtime |-> 1, content |-> 1]]
    /\ \E pa \in SamplePoints("a"),
          pb \in {NoRecord} \cup {SamplePoint("b", toISOString(purgeIntervalMs), toISOString(e)) :
                                     e \in {purgeIntervalMs + 1, purgeIntervalMs + ttlMs}} :
          store = [p \in Paths |-> IF p = "a" THEN pa ELSE IF p = "b" THEN pb ELSE NoRecord]
    /\ \E e \in {toISOString(purgeIntervalMs + 1), AbsentValue} :
          incrementalState = [p \in Paths |-> IF p = "a" THEN SampleRecord(e) ELSE NoRecord]
    /\ config \in [incrementalEnabled : {TRUE}, persistMetadata : {TRUE}, batchSize : {1},
                   validationEnabled : BOOLEAN,
                   maxConcurrency : {1}]
    /\ batches = [b \in Batches |-> IdleBatch]
    /\ stateDoc = incrementalState
    /\ metaDoc = stats
    /\ now = purgeIntervalMs
    /\ search = IdleSearch
    /\ isPurging = FALSE
    /\ lastPurgeTime = 0
    /\ purgeRuns = <<>>
    /\ purgeLog = NoPurgeLog
    /\ deletes = [d \in Deletes |-> IdleDelete]
    /\ reindex = IdleReindex
    /\ diskWritable = TRUE
    /\ HostInit
    /\ collectionExists \in BOOLEAN
    /\ config.validationEnabled \/ collectionExists

NextSearch ==
    \/ \E limit \in 1..MaxLimit : StartSearch(limit)
    \/ \E ok \in BOOLEAN : ValidateReturn(ok)
    \/ \E ok \in BOOLEAN : SearchEmbedReturn(ok)
    \/ QueryFails
    \/ QueryReturn
    \/ \E ok \in BOOLEAN : PurgeReturn(ok)
    \/ Tick

SpecSearch == InitSearch /\ [][NextSearch]_vars

(***************************************************************************)
(* deleteFileFromIndex, reindexAll with getAllFiles and                    *)
(* clearIncrementalState, the constructor's loadIncrementalState, and the  *)
(* read-only operations.                                                   *)
(***************************************************************************)
\* the paths deleteFileFromIndex is called with and getAllFiles may discover
MaintainedPaths == {"a", "b"}

EmptyState == [p \in Paths |-> NoRecord]

\* Object.keys(this.incrementalState)
RecordedPaths == {p \in Paths : incrementalState[p] # NoRecord}

\* loadIncrementalState: a missing document leaves the map empty; a document
\* that cannot be read or parsed is logged and the map is reset to empty
loadIncrementalState(doc) ==
    IF doc = NoDocument \/ doc = CorruptDocument THEN EmptyState ELSE doc

withoutRecordClearingAll(st, p) == EmptyState

\* delete this.incrementalState[filePath]
withoutRecord(st, p) == [st EXCEPT ![p] = NoRecord]

\* the store's delete by points: the point with that identifier goes, if any
withoutPoint(pts, fileId) ==
    [q \in Paths |-> IF pts[q] # NoRecord /\ pts[q].id = fileId THEN NoRecord ELSE pts[q]]

\* deleteFileFromIndex(p) up to its suspension on the store's delete
StartDelete(p) ==
    /\ \E d \in Deletes :
          /\ deletes[d].pc = "idle"
          /\ \A e \in Deletes : e < d => deletes[e].pc # "idle"
          /\ deletes' = [deletes EXCEPT ![d] = [IdleDelete EXCEPT !.pc = "delete", !.path = p,
                                                   !.fileId = generateFileId(p)]]
    /\ UNCHANGED <<calls, indexingQueue, currentConcurrency, incrementalState, stats, files,
                   store, config, batches, stateDoc, metaDoc, searchVars, reindex,
                   diskWritable, hostVars>>

\* deleteFileFromIndex after the await of the store's delete: the record is
\* removed and the state document saved, or the error is rethrown
deleteAnswered(d, ok) ==
    IF ok
    THEN /\ incrementalState' = withoutRecord(incrementalState, deletes[d].path)
         /\ stateDoc' = savedState(stateDoc, incrementalState', TRUE)
    ELSE UNCHANGED <<incrementalState, stateDoc>>

\* deleteFileFromIndex: the store's delete has answered (the record is removed
\* and the state document saved) or failed (the error is rethrown)
DeleteReturn(d, ok) ==
    /\ deletes[d].pc = "delete"
    /\ deletes' = [deletes EXCEPT ![d].pc = "done", ![d].ok = ok,
                      ![d].hadRecord = ok /\ incrementalState[deletes[d].path] # NoRecord,
                      ![d].hadPoint = ok /\ store[deletes[d].path] # NoRecord]
    /\ store' = IF ok THEN withoutPoint(store, deletes[d].fileId) ELSE store
    /\ deleteAnswered(d, ok)
    /\ UNCHANGED <<calls, indexingQueue, currentConcurrency, stats, files, config, batches,
                   metaDoc, searchVars, reindex, diskWritable, hostVars>>

\* reindexAll(directory) up to its suspension on getAllFiles
StartReindex ==
    /\ reindex.pc = "idle"
    /\ \E b \in Batches : batches[b].pc = "idle"
    /\ reindex' = [IdleReindex EXCEPT !.pc = "glob"]
    /\ UNCHANGED <<calls, indexingQueue, currentConcurrency, incrementalState, stats, files,
                   store, config, batches, stateDoc, metaDoc, searchVars, deletes,
                   diskWritable, hostVars>>

\* what getAllFiles may resolve with: files of the directory the ignore patterns
\* do not match, each once, or nothing (glob failed, or the directory is empty)
FoundLists ==
    {l \in ListsOf(MaxList) :
        /\ NoRepeat(l)
        /\ \A i \in DOMAIN l : /\ l[i] \in MaintainedPaths
                               /\ files[l[i]].exists
                               /\ ~shouldExcludeFile(l[i])}

clearIncrementalStateKeeping(st) == st

\* clearIncrementalState: this.incrementalState = {}
clearIncrementalState(st) == EmptyState

\* clearIncrementalState's unlinkSync throws
unlinkFails == stateDoc # NoDocument /\ ~diskWritable

\* reindexAll: getAllFiles has resolved. No file: return. Otherwise
\* clearIncrementalState, then indexFiles(found) up to its first suspension.
GlobReturn(found) ==
    /\ reindex.pc = "glob"
    /\ Len(found) <= Cardinality(FreeCalls) - Reserved
    /\ IF found = <<>>
       THEN /\ reindex' = [reindex EXCEPT !.pc = "done"]
            /\ UNCHANGED <<calls, indexingQueue, currentConcurrency, incrementalState, stats,
                           batches, stateDoc>>
       ELSE /\ incrementalState' = clearIncrementalState(incrementalState)
            /\ IF unlinkFails
               THEN /\ reindex' = [reindex EXCEPT !.pc = "done", !.found = found, !.ok = FALSE,
                                                  !.cleared = Cardinality(RecordedPaths),
                                                  !.cause = "unlink"]
                    /\ UNCHANGED <<calls, indexingQueue, currentConcurrency, stats, batches,
                                   stateDoc>>
               ELSE LET b == CHOOSE a \in Batches : batches[a].pc = "idle"
                    IN /\ stateDoc' = NoDocument
                       /\ reindex' = [reindex EXCEPT !.pc = "indexing", !.found = found,
                                                     !.cleared = Cardinality(RecordedPaths),
                                                     !.batch = b]
                       /\ enterIndexFiles(b, found)
    /\ UNCHANGED <<files, store, config, metaDoc, searchVars, deletes, diskWritable, hostVars>>

\* reindexAll: indexFiles has returned
ReindexReturn ==
    /\ reindex.pc = "indexing"
    /\ batches[reindex.batch].pc = "done"
    /\ reindex' = [reindex EXCEPT !.pc = "done"]
    /\ UNCHANGED <<calls, indexingQueue, currentConcurrency, incrementalState, stats, files,
                   store, config, batches, stateDoc, metaDoc, searchVars, deletes,
                   diskWritable, hostVars>>

\* getStats, getTemporalStats, getIndexingStatus: the fields are read, none is written
ReadOnlyCall == UNCHANGED vars

\* the engine constructed over a state document of an earlier run, which may be
\* missing or corrupt, in a directory that may refuse writes
LoadedDocuments ==
    {NoDocument, CorruptDocument,
     [p \in Paths |-> IF p \in MaintainedPaths THEN SampleRecord(toISOString(ttlMs))
                                              ELSE NoRecord]}

InitMaintain ==
    /\ calls = [c \in Calls |-> IdleCall]
    /\ indexingQueue = [p \in Paths |-> 0]
    /\ currentConcurrency = 0
    /\ stateDoc \in LoadedDocuments
    /\ incrementalState = loadIncrementalState(stateDoc)
    /\ stats = [totalFiles |-> 0, indexedFiles |-> 0, failedFiles |-> 0]
    /\ files = [p \in Paths |-> [exists |-> TRUE, mtime |-> 1, content |-> 1]]
    /\ store = [p \in Paths |-> IF incrementalState[p] # NoRecord
                                THEN SamplePoint(p, incrementalState[p].createdAt,
                                                 incrementalState[p].expiresAt)
                                ELSE NoRecord]
    /\ config \in [incrementalEnabled : {TRUE}, persistMetadata : {TRUE}, batchSize : {1},
                   validationEnabled : {FALSE},
                   maxConcurrency : {1}]
    /\ batches = [b \in Batches |-> IdleBatch]
    /\ metaDoc = stats
    /\ now = purgeIntervalMs
    /\ search = IdleSearch
    /\ isPurging = FALSE
    /\ lastPurgeTime = 0
    /\ purgeRuns = <<>>
    /\ purgeLog = NoPurgeLog
    /\ collectionExists = TRUE
    /\ deletes = [d \in Deletes |-> IdleDelete]
    /\ reindex = IdleReindex
    /\ diskWritable \in BOOLEAN
    /\ HostInit

\* the path direct callers of indexFile use while maintenance runs
IndexedPaths == {"a"}

\* indexFile and deleteFileFromIndex, interleaved (with one indexed path no
\* doIndexFile waits for a slot)
NextDelete ==
    \/ \E p \in IndexedPaths : CallIndexFile(p)
    \/ \E c \in Calls : CheckFile(c)
    \/ \E c \in Calls : CheckNeeds(c)
    \/ \E c \in Calls : ReadFile(c)
    \/ \E c \in Calls, ok \in BOOLEAN : EmbedReturn(c, ok)
    \/ \E c \in Calls, ok \in BOOLEAN : UpsertReturn(c, ok)
    \/ \E p \in MaintainedPaths : StartDelete(p)
    \/ \E d \in Deletes, ok \in BOOLEAN : DeleteReturn(d, ok)

\* deleteFileFromIndex in a directory that accepts writes
InitDelete == InitMaintain /\ diskWritable

SpecDelete == InitDelete /\ [][NextDelete]_vars

\* reindexAll with indexFile calls of other callers interleaved
NextReindex ==
    \/ \E p \in IndexedPaths : CallIndexFile(p)
    \/ \E c \in Calls : Admit(c)
    \/ \E c \in Calls : CheckFile(c)
    \/ \E c \in Calls : CheckNeeds(c)
    \/ \E c \in Calls : ReadFile(c)
    \/ \E c \in Calls, ok \in BOOLEAN : EmbedReturn(c, ok)
    \/ \E c \in Calls, ok \in BOOLEAN : UpsertReturn(c, ok)
    \/ \E b \in Batches : AdvanceBatch(b)
    \/ StartReindex
    \/ \E found \in FoundLists : GlobReturn(found)
    \/ ReindexReturn

SpecReindex == InitMaintain /\ [][NextReindex]_vars

\* no operation of the engine is in flight (a purge run may be executing)
engineIdle ==
    /\ \A c \in Calls : ~InFlight(c)
    /\ \A b \in Batches : batches[b].pc # "running"
    /\ \A d \in Deletes : deletes[d].pc # "delete"
    /\ reindex.pc \notin {"glob", "indexing"}
    /\ search.pc \in {"idle", "done"}

\* no settled invocation is kept either
engineFresh ==
    /\ \A c \in Calls : calls[c].pc = "idle"
    /\ \A b \in Batches : batches[b].pc = "idle"
    /\ \A d \in Deletes : deletes[d].pc = "idle"
    /\ reindex.pc = "idle"
    /\ search.pc = "idle"

\* the counters of doIndexFile, which only indexFiles resets, stay in range
countersBelowCap == stats.indexedFiles + stats.failedFiles < MaxCalls

\* the caller has its answer: the settled invocations are dropped
Forget ==
    /\ engineIdle /\ ~engineFresh
    /\ calls' = [c \in Calls |-> IdleCall]
    /\ batches' = [b \in Batches |-> IdleBatch]
    /\ deletes' = [d \in Deletes |-> IdleDelete]
    /\ reindex' = IdleReindex
    /\ search' = IdleSearch
    /\ UNCHANGED <<indexingQueue, currentConcurrency, incrementalState, stats, files, store,
                   config, stateDoc, metaDoc, now, isPurging, lastPurgeTime, purgeRuns,
                   purgeLog, collectionExists, diskWritable, hostVars>>

\* every operation of the engine, called by one client that awaits each call
\* before it makes the next; purge runs execute in the background
NextLifecycle ==
    \/ \E p \in MaintainedPaths : engineFresh /\ countersBelowCap /\ CallIndexFile(p)
    \/ \E c \in Calls : CheckFile(c)
    \/ \E c \in Calls : CheckNeeds(c)
    \/ \E c \in Calls : ReadFile(c)
    \/ \E c \in Calls, ok \in BOOLEAN : EmbedReturn(c, ok)
    \/ \E c \in Calls, ok \in BOOLEAN : UpsertReturn(c, ok)
    \/ \E b \in Batches : AdvanceBatch(b)
    \/ \E p \in MaintainedPaths : engineFresh /\ StartDelete(p)
    \/ \E d \in Deletes, ok \in BOOLEAN : DeleteReturn(d, ok)
    \/ engineFresh /\ StartReindex
    \/ \E found \in FoundLists : GlobReturn(found)
    \/ ReindexReturn
    \/ \E limit \in 1..MaxLimit : engineFresh /\ StartSearch(limit)
    \/ \E ok \in BOOLEAN : SearchEmbedReturn(ok)
    \/ QueryFails
    \/ QueryReturn
    \/ \E ok \in BOOLEAN : PurgeReturn(ok)
    \/ engineFresh /\ ReadOnlyCall
    \/ Forget

\* the engine constructed over the state document of an earlier run, whose
\* records have expired by now
InitLifecycle ==
    /\ calls = [c \in Calls |-> IdleCall]
    /\ indexingQueue = [p \in Paths |-> 0]
    /\ currentConcurrency = 0
    /\ stateDoc \in LoadedDocuments \ {NoDocument, CorruptDocument}
    /\ incrementalState = loadIncrementalState(stateDoc)
    /\ stats = [totalFiles |-> 0, indexedFiles |-> 0, failedFiles |-> 0]
    /\ files = [p \in Paths |-> [exists |-> TRUE, mtime |-> 1, content |-> 1]]
    /\ store = [p \in Paths |-> IF incrementalState[p] # NoRecord
                                THEN SamplePoint(p, incrementalState[p].createdAt,
                                                 incrementalState[p].expiresAt)
                                ELSE NoRecord]
    /\ config \in [incrementalEnabled : {TRUE}, persistMetadata : {TRUE}, batchSize : {1},
                   validationEnabled : {FALSE},
                   maxConcurrency : {1}]
    /\ batches = [b \in Batches |-> IdleBatch]
    /\ metaDoc = stats
    /\ now = MaxTime
    /\ search = IdleSearch
    /\ isPurging = FALSE
    /\ lastPurgeTime = 0
    /\ purgeRuns = <<>>
    /\ purgeLog = NoPurgeLog
    /\ collectionExists = TRUE
    /\ deletes = [d \in Deletes |-> IdleDelete]
    /\ reindex = IdleReindex
    /\ diskWritable = TRUE
    /\ HostInit

SpecLifecycle == InitLifecycle /\ [][NextLifecycle]_vars

(***************************************************************************)
(* FileWatcher: chokidar's events, the debounce timers, unlink.            *)
(***************************************************************************)
indexVars == <<calls, indexingQueue, currentConcurrency, incrementalState, stats, files,
               store, config, batches, stateDoc, metaDoc>>

\* the directories getBasicIgnorePatterns names ('**/node_modules/**', ...)
BasicIgnoredDirs == {"node_modules", ".git", "dist", "build", "coverage"}
\* the directories the default config.watching.ignorePatterns names
LegacyIgnoredDirs == {"node_modules", "dist", "build"}

\* chokidar's `ignored` option as startWatching sets it
chokidarIgnored(f) ==
    IF useAdvancedExclusions THEN f.dir \in BasicIgnoredDirs
    ELSE f.dir \in LegacyIgnoredDirs

\* the default inclusion_overrides patterns ('README.*', '*.md', ...)
inclusionOverride(f) == f.name \in {"README.md", "LICENSE", "CHANGELOG.md"}

FreeTimers == {t \in Timers : timers[t].pc = "idle"}
NextTimer == CHOOSE t \in FreeTimers : \A u \in FreeTimers : t <= u

\* clearTimeout: a timeout that has not fired never will
clearTimeout(ts, t) == IF ts[t].pc = "pending" THEN [ts EXCEPT ![t].pc = "cleared"] ELSE ts

\* clearDebounceTimer over the pair (timeouts, map)
clearDebounceTimer(w, f) ==
    IF w.map[f] # 0
    THEN [ts |-> clearTimeout(w.ts, w.map[f]), map |-> [w.map EXCEPT ![f] = 0]]
    ELSE w

\* debouncedIndexFile: clear the file's timer, set a new one, store it
debouncedIndexFile(w, f, t) ==
    LET c == clearDebounceTimer(w, f)
    IN [ts |-> [c.ts EXCEPT ![t] = [pc |-> "pending", file |-> f, due |-> now + debounceMs]],
        map |-> [c.map EXCEPT ![f] = t]]

\* a file is added or changed on disk; chokidar emits 'add' or 'change' unless
\* the path is ignored
FsChange(f) ==
    /\ FreeTimers # {}
    /\ changedAt' = [changedAt EXCEPT ![f] = now]
    /\ IF chokidarIgnored(f)
       THEN UNCHANGED <<timers, debounceTimers>>
       ELSE LET w == debouncedIndexFile([ts |-> timers, map |-> debounceTimers], f, NextTimer)
            IN timers' = w.ts /\ debounceTimers' = w.map
    /\ UNCHANGED <<indexVars, searchVars, deletes, reindex, diskWritable, embedding, walk,
                   startupVars,
                   useAdvancedExclusions, indexCalls, deleteCalls>>

\* a timeout fires: its callback calls indexer.indexFile(filePath)
TimerFires(t) ==
    /\ timers[t].pc = "pending"
    /\ timers[t].due <= now
    /\ timers' = [timers EXCEPT ![t].pc = "running"]
    /\ indexCalls' = [indexCalls EXCEPT ![timers[t].file] = Append(@, now)]
    /\ UNCHANGED <<indexVars, searchVars, deletes, reindex, diskWritable, embedding, walk,
                   startupVars,
                   useAdvancedExclusions, debounceTimers, changedAt, deleteCalls>>

\* the callback after its indexFile has settled (resolved or rejected): the
\* map entry of the file is deleted
IndexFileSettles(t) ==
    /\ timers[t].pc = "running"
    /\ timers' = [timers EXCEPT ![t].pc = "done"]
    /\ debounceTimers' = [debounceTimers EXCEPT ![timers[t].file] = 0]
    /\ UNCHANGED <<indexVars, searchVars, deletes, reindex, diskWritable, embedding, walk,
                   startupVars,
                   useAdvancedExclusions, changedAt, indexCalls>>
    /\ UNCHANGED deleteCalls

\* a file is removed from disk; chokidar emits 'unlink' unless the path is
\* ignored: clear the file's timer, call deleteFileFromIndex
FsUnlink(f) ==
    /\ deleteCalls[f] < MaxDeletes
    /\ changedAt' = [changedAt EXCEPT ![f] = NoTime]
    /\ IF chokidarIgnored(f)
       THEN UNCHANGED <<timers, debounceTimers, deleteCalls>>
       ELSE LET w == clearDebounceTimer([ts |-> timers, map |-> debounceTimers], f)
            IN /\ timers' = w.ts /\ debounceTimers' = w.map
               /\ deleteCalls' = [deleteCalls EXCEPT ![f] = @ + 1]
    /\ UNCHANGED <<indexVars, searchVars, deletes, reindex, diskWritable, embedding, walk,
                   startupVars,
                   useAdvancedExclusions, indexCalls>>

\* time passes, once every timeout that is due has fired
WatchTick ==
    /\ now < MaxTime
    /\ \A t \in Timers : timers[t].pc = "pending" => timers[t].due > now
    /\ now' = now + 1
    /\ UNCHANGED <<indexVars, search, isPurging, lastPurgeTime, purgeRuns, purgeLog,
                   collectionExists, maintVars>>

\* the engine as constructed over an empty state directory, nothing in flight
EngineQuiet ==
    /\ calls = [c \in Calls |-> IdleCall]
    /\ indexingQueue = [p \in Paths |-> 0]
    /\ currentConcurrency = 0
    /\ incrementalState = [p \in Paths |-> NoRecord]
    /\ stats = [totalFiles |-> 0, indexedFiles |-> 0, failedFiles |-> 0]
    /\ files = [p \in Paths |-> [exists |-> TRUE, mtime |-> 1, content |-> 1]]
    /\ store = [p \in Paths |-> NoRecord]
    /\ config = [incrementalEnabled |-> TRUE, persistMetadata |-> TRUE, batchSize |-> 1,
                 validationEnabled |-> TRUE, maxConcurrency |-> 1]
    /\ batches = [b \in Batches |-> IdleBatch]
    /\ stateDoc = [p \in Paths |-> NoRecord]
    /\ metaDoc = stats
    /\ search = IdleSearch
    /\ isPurging = FALSE
    /\ lastPurgeTime = 0
    /\ purgeRuns = <<>>
    /\ purgeLog = NoPurgeLog
    /\ deletes = [d \in Deletes |-> IdleDelete]
    /\ reindex = IdleReindex
    /\ diskWritable = TRUE
    /\ collectionExists = TRUE

InitWatch ==
    /\ EngineQuiet
    /\ now = 0
    /\ useAdvancedExclusions \in BOOLEAN
    /\ timers = [t \in Timers |-> IdleTimer]
    /\ debounceTimers = [f \in TreeFiles |-> 0]
    /\ changedAt = [f \in TreeFiles |-> NoTime]
    /\ indexCalls = [f \in TreeFiles |-> <<>>]
    /\ deleteCalls = [f \in TreeFiles |-> 0]
    /\ embedding = IdleEmbedding
    /\ walk = IdleWalk
    /\ StartupIdle

NextWatch ==
    \/ \E f \in TreeFiles : FsChange(f)
    \/ \E t \in Timers : TimerFires(t)
    \/ \E t \in Timers : IndexFileSettles(t)
    \/ \E f \in TreeFiles : FsUnlink(f)
    \/ WatchTick

SpecWatch == InitWatch /\ [][NextWatch]_vars

(***************************************************************************)
(* Properties of indexFile / doIndexFile.                                  *)
(***************************************************************************)

\* C1: while an indexFile(p) has not settled, a further indexFile(p) starts no
\* second doIndexFile(p): at most one doIndexFile per path is in flight, a caller
\* that joins makes no embed or upsert request of its own, and it settles when
\* the operation it joined settles, with the same outcome (the same error).
C1_SingleFlight ==
    /\ \A c, d \in Calls :
          (c # d /\ Owner(c) /\ Owner(d) /\ InFlight(c) /\ InFlight(d))
             => calls[c].path # calls[d].path
    /\ \A f \in Calls : Follower(f) =>
          /\ Owner(calls[f].leader)
          /\ calls[calls[f].leader].path = calls[f].path
          /\ calls[f].embeds = 0 /\ calls[f].upserts = 0
          /\ (calls[f].pc = "done") <=> (calls[calls[f].leader].pc = "done")
          /\ calls[f].outcome = calls[calls[f].leader].outcome

C1_Witness ==
    \E f \in Calls : /\ Follower(f) /\ calls[f].pc = "done"
                     /\ ~calls[f].outcome.ok /\ calls[calls[f].leader].embeds > 0

\* C2: the number of doIndexFile executions past waitForSlot and not yet past
\* releaseSlot equals currentConcurrency and never exceeds maxConcurrency.
C2_SlotBound ==
    /\ currentConcurrency = Cardinality({c \in Calls : Admitted(c)})
    /\ currentConcurrency <= maxConcurrency

C2_Witness ==
    /\ currentConcurrency = maxConcurrency
    /\ \E c \in Calls : calls[c].pc = "waiting"

\* C3: every admitted doIndexFile gives its slot back exactly once whatever the
\* exit path, a path stays in the in-flight map only while its indexFile is in
\* flight, and with no indexFile in flight the counter is 0 and the map is empty.
C3_State ==
    /\ \A p \in Paths : indexingQueue[p] # 0 =>
          /\ InFlight(indexingQueue[p]) /\ Owner(indexingQueue[p])
          /\ calls[indexingQueue[p]].path = p
    /\ (\A c \in Calls : ~InFlight(c)) =>
          /\ currentConcurrency = 0
          /\ \A p \in Paths : indexingQueue[p] = 0

C3_Step ==
    \A c \in Calls : (Admitted(c) /\ calls'[c].pc = "done") =>
        /\ currentConcurrency' = currentConcurrency - 1
        /\ indexingQueue'[calls[c].path] = 0

C3_SlotReleased == []C3_State /\ [][C3_Step]_vars

C3_Witness ==
    /\ \A c \in Calls : ~InFlight(c)
    /\ \E c \in Calls : calls[c].pc = "done" /\ ~calls[c].outcome.ok /\ calls[c].outcome.cause = "read"
    /\ \E c \in Calls : calls[c].pc = "done" /\ calls[c].result = "indexed"

\* C4: with incremental mode on, when needsIndexing finds a FileRecord whose
\* lastModified equals the file's modification time, indexFile resolves with no
\* embed and no upsert request, and the records, the counters and the store are
\* as they were.
C4_Step ==
    \A c \in Calls :
       (/\ calls[c].pc = "needs" /\ calls'[c].pc # "needs"
        /\ config.incrementalEnabled
        /\ files[calls[c].path].exists
        /\ incrementalState[calls[c].path] # NoRecord
        /\ incrementalState[calls[c].path].lastModified = files[calls[c].path].mtime)
       => /\ calls'[c].pc = "done" /\ calls'[c].outcome = Resolved
          /\ calls'[c].embeds = 0 /\ calls'[c].upserts = 0
          /\ incrementalState' = incrementalState
          /\ stats' = stats
          /\ store' = store

C4_UnchangedSkip == [][C4_Step]_vars

C4_Witness ==
    \E c \in Calls : /\ calls[c].pc = "done" /\ calls[c].result = "unchanged"
                     /\ incrementalState[calls[c].path] # NoRecord

\* C5: when doIndexFile reaches the exclusion check for a path the ignore
\* patterns match, indexFile resolves, no embed or upsert request is made, no
\* FileRecord and no counter changes, and the slot is released; such a path
\* never has a FileRecord or a vector entry.
C5_State ==
    \A p \in ignoredPaths : incrementalState[p] = NoRecord /\ store[p] = NoRecord

C5_Step ==
    \A c \in Calls :
       (/\ calls[c].pc = "admitted" /\ calls'[c].pc # "admitted"
        /\ calls[c].path \in ignoredPaths
        /\ files[calls[c].path].exists)
       => /\ calls'[c].pc = "done" /\ calls'[c].outcome = Resolved
          /\ calls'[c].embeds = 0 /\ calls'[c].upserts = 0
          /\ incrementalState' = incrementalState
          /\ stats' = stats
          /\ store' = store
          /\ currentConcurrency' = currentConcurrency - 1

C5_ExcludedSkipped == []C5_State /\ [][C5_Step]_vars

C5_Witness ==
    \E c \in Calls : calls[c].pc = "done" /\ calls[c].result = "excluded"

\* C6: a FileRecord of p changes, and indexedFiles grows, only in the step in
\* which an upsert for p is acknowledged and doIndexFile resolves; a doIndexFile
\* that rejects adds exactly one to failedFiles, changes no FileRecord, and its
\* error names its path.
C6_Step ==
    /\ \A p \in Paths :
          (incrementalState'[p] # incrementalState[p] \/ stats'.indexedFiles > stats.indexedFiles)
          => \E c \in Calls :
                /\ calls[c].pc = "upsert" /\ calls'[c].pc = "done" /\ calls'[c].upserted
                /\ calls'[c].outcome = Resolved
                /\ stats'.indexedFiles = stats.indexedFiles + 1
                /\ stats'.failedFiles = stats.failedFiles
                /\ \A q \in Paths : incrementalState'[q] # incrementalState[q] =>
                      /\ q = calls[c].path
                      /\ store'[q] # NoRecord
                      /\ store'[q].id = generateFileId(q)
                      /\ store'[q].lastModified = incrementalState'[q].lastModified
                      /\ store'[q].checksum = incrementalState'[q].checksum
    /\ \A c \in Calls :
          (Owner(c) /\ InFlight(c) /\ calls'[c].pc = "done" /\ ~calls'[c].outcome.ok)
          => /\ stats'.failedFiles = stats.failedFiles + 1
             /\ stats'.indexedFiles = stats.indexedFiles
             /\ incrementalState' = incrementalState
             /\ calls'[c].outcome.file = calls[c].path

C6_RecordAfterUpsert == [][C6_Step]_vars

C6_Witness ==
    /\ \E c \in Calls : calls[c].pc = "done" /\ ~calls[c].outcome.ok /\ calls[c].outcome.cause = "embed"
    /\ \E c \in Calls : calls[c].pc = "done" /\ calls[c].result = "indexed"
    /\ stats.failedFiles = 1 /\ stats.indexedFiles = 1

\* C7: indexFile fails with the store-persistence error only when every one of
\* the upsert attempts failed; once an attempt is acknowledged, indexFile
\* resolves, the FileRecord is written and indexedFiles is incremented.
C7_RetrySucceeds ==
    \A c \in Calls : (calls[c].pc = "done" /\ Owner(c)) =>
        /\ (~calls[c].outcome.ok /\ calls[c].outcome.cause = "upsert")
              => (~calls[c].upserted /\ calls[c].upserts = qdrantRetries)
        /\ calls[c].upserted => (calls[c].outcome = Resolved /\ calls[c].result = "indexed")
(***************************************************************************)
(* Properties of indexFiles.                                               *)
(***************************************************************************)
Count(s, p) == Cardinality({i \in DOMAIN s : s[i] = p})
CallsOf(b, p) == {c \in Calls : calls[c].pc # "idle" /\ calls[c].parent = b /\ calls[c].path = p}
NoDuplicates(s) == \A i, j \in DOMAIN s : s[i] = s[j] => i = j

\* C8: indexFiles returns its two lists whatever failed; with multiplicity every
\* input path is in exactly one of them, in failed exactly when its indexFile
\* rejected, and indexFile was invoked for every input path, those after a
\* failed one included.
C8_Partition ==
    \A b \in Batches :
       /\ batches[b].pc = "done" =>
            \A p \in Paths :
               /\ Count(batches[b].input, p) = Cardinality(CallsOf(b, p))
               /\ \A c \in CallsOf(b, p) : calls[c].pc = "done"
               /\ Count(batches[b].failed, p)
                     = Cardinality({c \in CallsOf(b, p) : ~calls[c].outcome.ok})
               /\ Count(batches[b].successful, p)
                     = Cardinality({c \in CallsOf(b, p) : calls[c].outcome.ok})
               /\ Count(batches[b].input, p)
                     = Count(batches[b].successful, p) + Count(batches[b].failed, p)
       /\ batches[b].pc = "running" =>
            \A p \in Paths :
               Count(batches[b].failed, p)
                  = Cardinality({c \in CallsOf(b, p) : calls[c].pc = "done" /\ ~calls[c].outcome.ok})

C8_Witness ==
    \E b \in Batches :
       /\ batches[b].pc = "done" /\ config.batchSize = 1
       /\ Len(batches[b].input) = 2
       /\ batches[b].failed = <<batches[b].input[1]>>
       /\ batches[b].successful = <<batches[b].input[2]>>

\* C9 as claimed: when indexFiles returns, stats.failedFiles is the length of the
\* returned failed list, for any input list and whatever else runs meanwhile.
C9_FailedCount ==
    \A b \in Batches : batches[b].pc = "done" =>
        batches[b].failedAtReturn = Len(batches[b].failed)

\* C9 as amended: when indexFiles returns, stats.failedFiles is the length of the
\* returned failed list, provided the input list names no path twice and no other
\* indexFile or indexFiles invocation was in flight at any time during the call.
C9_FailedCountAlone ==
    \A b \in Batches :
       (batches[b].pc = "done" /\ ~batches[b].overlapped /\ NoDuplicates(batches[b].input))
       => batches[b].failedAtReturn = Len(batches[b].failed)

C9_Witness ==
    \E b \in Batches :
       /\ batches[b].pc = "done" /\ ~batches[b].overlapped
       /\ Len(batches[b].input) = 2 /\ NoDuplicates(batches[b].input)
       /\ Len(batches[b].failed) = 1
       /\ \E c \in Calls : calls[c].parent = 0 /\ calls[c].pc = "done" /\ ~calls[c].outcome.ok
(***************************************************************************)
(* Properties of search.                                                   *)
(***************************************************************************)

\* C10: no result search returns carries an expiresAt that parses to a time
\* earlier than the instant at which search filtered its candidates, wherever
\* the store ranked it.
C10_NoExpiredResult ==
    (search.pc = "done" /\ search.ok) =>
        \A i \in DOMAIN search.results :
            ~(/\ parseDate(search.results[i].expiresAt).finite
              /\ parseDate(search.results[i].expiresAt).v < search.filteredAt)

C10_Witness ==
    /\ search.pc = "done" /\ search.ok
    /\ Len(search.raw) = 2
    /\ parseDate(search.raw[1].expiresAt).finite
    /\ parseDate(search.raw[1].expiresAt).v < search.filteredAt
    /\ isFreshIgnoringExpiry(search.raw[1], search.filteredAt)
    /\ search.results = <<search.raw[2]>>

\* C11: no result search returns has a createdAt that is missing, not a string
\* or unparseable, or an age above the freshness window, whether or not it
\* carries an expiresAt; and the filter keeps every candidate whose createdAt
\* parses, that is not expired and whose age is within the window.
C11_FreshOnly ==
    (search.pc = "done" /\ search.ok) =>
       /\ \A i \in DOMAIN search.results :
             /\ parseDate(search.results[i].createdAt).finite
             /\ search.filteredAt - parseDate(search.results[i].createdAt).v <= ttlMs
       /\ \A i \in DOMAIN search.raw :
             (/\ parseDate(search.raw[i].createdAt).finite
              /\ ~(/\ parseDate(search.raw[i].expiresAt).finite
                   /\ parseDate(search.raw[i].expiresAt).v < search.filteredAt)
              /\ search.filteredAt - parseDate(search.raw[i].createdAt).v <= ttlMs)
             => \E j \in DOMAIN search.filtered : search.filtered[j] = search.raw[i]

C11_Witness ==
    /\ search.pc = "done" /\ search.ok
    /\ Len(search.raw) >= 1
    /\ parseDate(search.raw[1].createdAt).finite
    /\ ~parseDate(search.raw[1].expiresAt).finite
    /\ search.filteredAt - parseDate(search.raw[1].createdAt).v > ttlMs
    /\ \A i \in DOMAIN search.results : search.results[i] # search.raw[1]

C13_State == isPurging <=> purgeRuns # <<>>

C13_Step ==
    /\ Len(purgeRuns') > Len(purgeRuns) => (search'.pc = "done" /\ search'.ok)
    /\ (Len(purgeRuns') < Len(purgeRuns) /\ purgeLog'.last = "failed") =>
          /\ search' = search
          /\ store' = store /\ incrementalState' = incrementalState
          /\ lastPurgeTime' = lastPurgeTime /\ collectionExists' = collectionExists
          /\ ~isPurging'

C13_PurgeFailureContained == []C13_State /\ [][C13_Step]_vars

C13_Witness ==
    /\ search.pc = "done" /\ search.ok /\ search.purgeStarted
    /\ Len(search.results) > 0
    /\ purgeLog.last = "failed" /\ purgeLog.startedAt = search.filteredAt
    /\ ~isPurging

\* C14: never two purge runs at once, and a purge run starts no sooner than the
\* minimum purge interval after the start of the one before, whatever the
\* outcome of that one.
C14_State == Len(purgeRuns) <= 1

C14_Step ==
    Len(purgeRuns') > Len(purgeRuns) =>
        (purgeLog.startedAt = NoTime \/ now - purgeLog.startedAt >= purgeIntervalMs)

C14_PurgeSpacing == []C14_State /\ [][C14_Step]_vars

\* C19: a search fails on the store's search only after the retry ceiling of
\* search requests.
C19_StoreCallsRetried ==
    (search.pc = "done" /\ ~search.ok /\ search.cause = "query") =>
        search.queries = qdrantRetries

(***************************************************************************)
(* Properties of deleteFileFromIndex and reindexAll.                       *)
(***************************************************************************)

\* C15: a deleteFileFromIndex(p) whose store delete is acknowledged resolves
\* whether or not p had a FileRecord or a vector entry; in that step p's
\* FileRecord goes, every other FileRecord stays, and the state document is
\* rewritten with the new map; on a path with neither record nor vector the
\* step changes neither the map nor the store.
C15_Step ==
    \A d \in Deletes :
       (deletes[d].pc = "delete" /\ deletes'[d].pc = "done" /\ deletes'[d].ok) =>
          LET p == deletes[d].path
          IN /\ incrementalState'[p] = NoRecord
             /\ \A q \in Paths \ {p} : incrementalState'[q] = incrementalState[q]
             /\ diskWritable => stateDoc' = incrementalState'
             /\ (incrementalState[p] = NoRecord /\ store[p] = NoRecord)
                   => (incrementalState' = incrementalState /\ store' = store)

C15_DeleteIdempotent == [][C15_Step]_vars

C15_Witness ==
    /\ deletes[1].pc = "done" /\ deletes[1].ok /\ deletes[1].hadRecord /\ deletes[1].hadPoint
    /\ deletes[2].pc = "done" /\ deletes[2].ok /\ ~deletes[2].hadRecord /\ ~deletes[2].hadPoint
    /\ deletes[1].path = deletes[2].path
    /\ \E q \in Paths : q # deletes[1].path /\ incrementalState[q] # NoRecord
    /\ stateDoc = incrementalState

\* C16: the identifier of every stored vector and of every delete request is
\* generateFileId of its path, so an acknowledged deleteFileFromIndex(p)
\* removes the vector indexFile(p) upserted, and a later successful indexFile(p)
\* stores a vector under the identifier the deletion used.
C16_State ==
    /\ \A p \in Paths : store[p] # NoRecord => store[p].id = generateFileId(p)
    /\ \A d \in Deletes : deletes[d].pc # "idle" =>
          deletes[d].fileId = generateFileId(deletes[d].path)

C16_Step ==
    \A d \in Deletes :
       (deletes[d].pc = "delete" /\ deletes'[d].pc = "done" /\ deletes'[d].ok) =>
          store'[deletes[d].path] = NoRecord

C17_Step ==
    (reindex.pc = "glob" /\ reindex'.pc = "indexing") =>
        (incrementalState' = EmptyState /\ stateDoc' = NoDocument)

C17_State ==
    \A c \in Calls :
       (reindex.pc \in {"indexing", "done"} /\ calls[c].pc = "done"
        /\ calls[c].parent # 0 /\ calls[c].parent = reindex.batch)
       => calls[c].result # "unchanged"

C17_StateAlone ==
    \A c \in Calls :
       (reindex.pc \in {"indexing", "done"} /\ calls[c].pc = "done"
        /\ calls[c].parent # 0 /\ calls[c].parent = reindex.batch
        /\ ~batches[reindex.batch].overlapped)
       => calls[c].result # "unchanged"

C20_StateIONeverFatal ==
    ~(reindex.pc = "done" /\ ~reindex.ok /\ reindex.cause = "unlink")

(***************************************************************************)
(* The life cycle of a FileRecord.                                         *)
(***************************************************************************)
C18_Indexed(p) ==
    \E c \in Calls : /\ calls[c].pc = "upsert" /\ calls[c].path = p
                     /\ calls'[c].pc = "done" /\ calls'[c].result = "indexed"

C18_Deleted(p) ==
    \E d \in Deletes : /\ deletes[d].pc = "delete" /\ deletes[d].path = p
                       /\ deletes'[d].pc = "done" /\ deletes'[d].ok

C18_Purged(p) ==
    /\ Len(purgeRuns') < Len(purgeRuns) /\ purgeLog'.last = "completed"
    /\ parseDate(incrementalState[p].expiresAt).finite
    /\ parseDate(incrementalState[p].expiresAt).v < now

C18_Cleared ==
    reindex.pc = "glob" /\ reindex'.pc \in {"indexing", "done"} /\ reindex'.found # <<>>

\* C18 as claimed: a FileRecord of p is created or overwritten only by a
\* successful index of p, and removed only by an acknowledged
\* deleteFileFromIndex(p) or by a completed purge run that finds it expired.
C18_Step ==
    \A p \in Paths : incrementalState'[p] # incrementalState[p] =>
        IF incrementalState'[p] # NoRecord THEN C18_Indexed(p)
        ELSE C18_Deleted(p) \/ C18_Purged(p)

\* C18 as claimed, over every step of the engine: only a successful index
\* writes a FileRecord, only deleteFileFromIndex or a purge of an expired
\* record removes one.
C18_RecordLifecycle == [][C18_Step]_vars

\* C18 as amended: a FileRecord of p is created or overwritten only by a
\* successful index of p, and removed only by an acknowledged
\* deleteFileFromIndex(p), by a completed purge run that finds it expired, or by
\* the clearIncrementalState of a reindexAll that found a file.
C18_StepWithClear ==
    \A p \in Paths : incrementalState'[p] # incrementalState[p] =>
        IF incrementalState'[p] # NoRecord THEN C18_Indexed(p)
        ELSE C18_Deleted(p) \/ C18_Purged(p) \/ C18_Cleared

\* C18 as amended, over every step of the engine: only a successful index
\* writes a FileRecord; only deleteFileFromIndex, a purge of an expired record
\* or reindexAll's clearIncrementalState removes one.
C18_RecordLifecycleWithClear == [][C18_StepWithClear]_vars

C18_Witness ==
    /\ purgeLog.last = "completed" /\ purgeLog.swept > 0
    /\ reindex.pc = "done" /\ reindex.ok /\ reindex.cleared > 0
    /\ \E c \in Calls : /\ calls[c].pc = "done" /\ calls[c].result = "indexed"
                        /\ incrementalState[calls[c].path] # NoRecord

(***************************************************************************)
(* Failing searches.                                                       *)
(***************************************************************************)
C21_State ==
    /\ (config.validationEnabled /\ ~collectionExists /\ search.pc # "idle") =>
           /\ search.embeds = 0 /\ search.queries = 0
           /\ search.pc = "done" => ~search.ok
    /\ (search.pc = "done" /\ ~search.ok) => ~search.purgeStarted

C21_Step ==
    (search.pc # "done" /\ search'.pc = "done" /\ ~search'.ok) =>
        /\ purgeRuns' = purgeRuns /\ isPurging' = isPurging /\ purgeLog' = purgeLog
        /\ store' = store /\ incrementalState' = incrementalState
        /\ lastPurgeTime' = lastPurgeTime

\* C21: with validation enabled and the collection missing, search rejects
\* with no embed request and no store search made; and the step in which any
\* search fails starts no purge run.
C21_FailFastNoPurge == []C21_State /\ [][C21_Step]_vars

C21_Witness ==
    /\ config.validationEnabled /\ ~collectionExists
    /\ search.pc = "done" /\ ~search.ok /\ search.cause = "validate"
    /\ purgeDue(now) /\ purgeRuns = <<>>

(***************************************************************************)
(* The two documents at the return of indexFiles.                          *)
(***************************************************************************)
C22_Returns(b) == batches[b].pc # "done" /\ batches'[b].pc = "done"

C22_Step ==
    /\ \A b \in Batches : C22_Returns(b) =>
           IF config.persistMetadata
           THEN stateDoc' = incrementalState' /\ metaDoc' = stats'
           ELSE stateDoc' = stateDoc /\ metaDoc' = metaDoc
    /\ ~config.persistMetadata => (stateDoc' = stateDoc /\ metaDoc' = metaDoc)

\* C22: in the step in which indexFiles returns with persistence enabled (the
\* disk accepting the writes), the state document equals the FileRecord map
\* and the stats document equals the stats; with persistence disabled no step
\* of indexFiles writes either document.
C22_FlushAtReturn == [][C22_Step]_vars

C22_Witness ==
    /\ config.persistMetadata /\ diskWritable
    /\ \E b \in Batches : batches[b].pc = "done" /\ Len(batches[b].input) > 1
    /\ stateDoc = incrementalState /\ metaDoc = stats
    /\ \E p \in Paths : stateDoc[p] # NoRecord
    /\ metaDoc.indexedFiles > 0 /\ metaDoc.failedFiles > 0

(***************************************************************************)
(* generateEmbedding: the retry loop and the reconciliation of the vector  *)
(* length with embeddingConfig.dimensions.                                 *)
(***************************************************************************)
\* largest embeddingConfig.dimensions
MaxDims == 3
\* largest config.ollama.retries
MaxRetries == 3
\* longest vector the model answers with
MaxVector == 4
\* response.embedding: missing, or a vector (components are non-zero numbers)
NoEmbedding == [missing |-> TRUE, v |-> <<>>]
Vectors == UNION {[1..n -> {1, 2}] : n \in 0..MaxVector}
Responses == {NoEmbedding} \cup {[missing |-> FALSE, v |-> x] : x \in Vectors}

\* new Array(n).fill(0)
zeros(n) == [i \in 1..n |-> 0]

\* !response.embedding || response.embedding.length === 0
emptyEmbedding(r) == r.missing \/ Len(r.v) = 0

reconcileUnpadded(v, expected) == IF Len(v) > expected THEN SubSeq(v, 1, expected) ELSE v

\* the adjustment of a vector whose length differs from `expected`
reconcile(v, expected) ==
    IF Len(v) # expected
    THEN IF Len(v) > expected THEN SubSeq(v, 1, expected)
         ELSE v \o zeros(expected - Len(v))
    ELSE v

\* config.ollama.retries: unset, or a count from 0 on
RetryCounts == {[set |-> FALSE, n |-> 0]} \cup {[set |-> TRUE, n |-> k] : k \in 0..MaxRetries}

maxRetriesAsConfigured(r) == r.n

\* const maxRetries = this.config.ollama.retries || 2
maxRetries(r) == IF r.set /\ r.n # 0 THEN r.n ELSE 2

\* the error thrown after the loop
embeddingError(e, cause) ==
    [attempts |-> maxRetries(e.retries),
     message |-> IF cause = <<>> THEN "undefined" ELSE cause[Len(cause)]]

\* generateEmbedding(text) up to its first request (a loop that never runs
\* throws at once)
StartEmbedding ==
    /\ embedding.pc \in {"idle", "done"}
    /\ LET e == [IdleEmbedding EXCEPT !.dimensions = embedding.dimensions,
                                     !.retries = embedding.retries]
       IN embedding' = IF 1 <= maxRetries(e.retries)
                       THEN [e EXCEPT !.pc = "request", !.attempts = 1]
                       ELSE [e EXCEPT !.pc = "done", !.ok = FALSE,
                                      !.error = embeddingError(e, <<>>)]
    /\ UNCHANGED <<indexVars, searchVars, deletes, reindex, diskWritable, watcherVars, walk,
                   startupVars>>

\* one attempt fails (the request rejects, or the response carries no vector):
\* back off and ask again, or give up after the last attempt
attemptFailed(e, r, message) ==
    IF e.attempts < maxRetries(e.retries)
    THEN [e EXCEPT !.failures = @ + 1, !.attempts = @ + 1, !.response = r,
                   !.sleeps = @ + 1, !.causes = Append(@, message)]
    ELSE [e EXCEPT !.failures = @ + 1, !.pc = "done", !.ok = FALSE, !.response = r,
                   !.result = <<>>, !.causes = Append(@, message),
                   !.error = embeddingError(e, Append(e.causes, message))]

\* the embeddings request rejects
EmbeddingRejects ==
    /\ embedding.pc = "request"
    /\ embedding' = attemptFailed(embedding, NoEmbedding, "request failed")
    /\ UNCHANGED <<indexVars, searchVars, deletes, reindex, diskWritable, watcherVars, walk,
                   startupVars>>

\* the embeddings request answers with r
EmbeddingResponse(r) ==
    /\ embedding.pc = "request"
    /\ embedding' = IF emptyEmbedding(r) THEN attemptFailed(embedding, r, "Empty embedding response")
                    ELSE [embedding EXCEPT !.pc = "done", !.ok = TRUE, !.response = r,
                                           !.result = reconcile(r.v, embedding.dimensions)]
    /\ UNCHANGED <<indexVars, searchVars, deletes, reindex, diskWritable, watcherVars, walk,
                   startupVars>>

InitEmbedding ==
    /\ EngineQuiet
    /\ now = 0
    /\ WatcherIdle
    /\ \E d \in 1..MaxDims, r \in RetryCounts :
          embedding = [IdleEmbedding EXCEPT !.dimensions = d, !.retries = r]
    /\ walk = IdleWalk
    /\ StartupIdle

NextEmbedding ==
    \/ StartEmbedding
    \/ EmbeddingRejects
    \/ \E r \in Responses : EmbeddingResponse(r)

SpecEmbedding == InitEmbedding /\ [][NextEmbedding]_vars

(***************************************************************************)
(* getAllFiles: the glob of the legacy branch, and the recursive walk of   *)
(* getAllFilesAdvanced (one processDirectory activation per directory).    *)
(***************************************************************************)
\* the tree under the directory handed to getAllFiles: the entries of each
\* directory in readdir's order
TreeDirs == {"root", "root/sub"}
TreeEntries == {"root/f1", "root/sub", "root/sub/f2", "root/f3"}
entriesOf(dir) == IF dir = "root" THEN <<"root/f1", "root/sub", "root/f3">>
                  ELSE IF dir = "root/sub" THEN <<"root/sub/f2">>
                  ELSE <<>>
isDirectory(e) == e \in TreeDirs

\* what the glob of the legacy branch finds: the files outside the ignore patterns
RECURSIVE SelectSeq2(_, _)
SelectSeq2(s, keep) ==
    IF s = <<>> THEN <<>>
    ELSE IF Head(s) \in keep THEN <<Head(s)>> \o SelectSeq2(Tail(s), keep)
    ELSE SelectSeq2(Tail(s), keep)
globFiles(w) ==
    SelectSeq2(<<"root/f1", "root/f3", "root/sub/f2">>,
               {e \in TreeEntries : ~isDirectory(e) /\ e \notin w.legacy
                                    /\ (e = "root/sub/f2" => "root/sub" \notin w.legacy)
                                    /\ "root" \in w.readable
                                    /\ (e = "root/sub/f2" => "root/sub" \in w.readable)})

\* shouldExcludeFile over the entries of the tree: the matcher's verdict when
\* this.fileMatcher is set, the ignore patterns otherwise
shouldExcludeEntry(w, e) == IF w.advanced THEN e \in w.excluded ELSE e \in w.legacy

walkAbortsOnError(w) == [w EXCEPT !.frames = <<>>, !.pc = "done", !.rejected = TRUE]

\* processDirectory's catch: the directory is logged and left
walkSkipsDirectory(w) == [w EXCEPT !.frames = Tail(@)]

\* processDirectory's for loop over the entries of the innermost activation, up
\* to the next readdir (or to the end of the walk): an excluded entry is passed
\* over, a directory starts a new activation, a file is pushed
RECURSIVE processDirectory(_)
processDirectory(w) ==
    IF w.frames = <<>> THEN [w EXCEPT !.pc = "done", !.result = w.files]
    ELSE LET top == Head(w.frames)
         IN IF top.rest = <<>> THEN processDirectory([w EXCEPT !.frames = Tail(@)])
            ELSE LET e == Head(top.rest)
                     passed == [w EXCEPT !.frames[1].rest = Tail(@)]
                 IN IF shouldExcludeEntry(w, e) THEN processDirectory(passed)
                    ELSE IF isDirectory(e)
                         THEN [passed EXCEPT !.frames = <<[dir |-> e, rest |-> <<>>]>> \o @]
                         ELSE processDirectory([passed EXCEPT !.files = Append(@, e)])

\* getAllFiles(directory) up to its first suspension
StartGetAllFiles ==
    /\ walk.pc = "idle"
    /\ walk' = IF walk.advanced
               THEN [walk EXCEPT !.pc = "readdir", !.frames = <<[dir |-> "root", rest |-> <<>>]>>]
               ELSE [walk EXCEPT !.pc = "glob"]
    /\ UNCHANGED <<indexVars, searchVars, deletes, reindex, diskWritable, watcherVars,
                   embedding, startupVars>>

\* the glob answers, or rejects and getAllFiles' catch returns []
GlobSettles(ok) ==
    /\ walk.pc = "glob"
    /\ walk' = [walk EXCEPT !.pc = "done", !.globFailed = ~ok,
                             !.result = IF ok THEN globFiles(walk) ELSE <<>>]
    /\ UNCHANGED <<indexVars, searchVars, deletes, reindex, diskWritable, watcherVars,
                   embedding, startupVars>>

\* readdir of the innermost activation answers, or rejects (the directory is
\* missing or unreadable)
ReaddirSettles ==
    /\ walk.pc = "readdir"
    /\ LET dir == Head(walk.frames).dir
       IN walk' = IF dir \in walk.readable
                  THEN processDirectory([walk EXCEPT !.frames[1].rest = entriesOf(dir)])
                  ELSE processDirectory(walkSkipsDirectory(walk))
    /\ UNCHANGED <<indexVars, searchVars, deletes, reindex, diskWritable, watcherVars,
                   embedding, startupVars>>

InitWalk ==
    /\ EngineQuiet
    /\ now = 0
    /\ WatcherIdle
    /\ embedding = IdleEmbedding
    /\ \E adv \in BOOLEAN, rd \in SUBSET TreeDirs, ex \in SUBSET TreeEntries :
          walk = [IdleWalk EXCEPT !.advanced = adv, !.readable = rd, !.excluded = ex,
                                  !.legacy = ex]
    /\ StartupIdle

NextWalk ==
    \/ StartGetAllFiles
    \/ \E ok \in BOOLEAN : GlobSettles(ok)
    \/ ReaddirSettles

SpecWalk == InitWalk /\ [][NextWalk]_vars

(***************************************************************************)
(* startup.ts: onStartup and the resolution of the immediate-indexing flag *)
(* (config/immediate-indexing.ts, utils/booleans.ts).                      *)
(***************************************************************************)
\* number of onStartup calls in one behaviour
MaxStartups == 3
\* an environment string: `text` is what trim().toLowerCase() makes of it,
\* padded and upper tell how the raw string differs from that
EnvString(text, padded, upper) == [set |-> TRUE, text |-> text, padded |-> padded, upper |-> upper]
EnvValues == {Unset, EnvString("true", FALSE, FALSE), EnvString("off", TRUE, TRUE),
              EnvString("maybe", FALSE, FALSE), EnvString("", FALSE, FALSE)}
Envs == [IMMEDIATE_INDEXING_ENABLED : EnvValues, IMMEDIATE_INDEXING : EnvValues,
         START_INDEXING_ON_STARTUP : EnvValues]

TRUE_SET == {"true", "1", "yes", "on"}
FALSE_SET == {"false", "0", "no", "off"}
LEGACY_VARS == <<"IMMEDIATE_INDEXING", "START_INDEXING_ON_STARTUP">>

\* input.trim().toLowerCase()
trimLower(v) == v.text
\* parseBoolean(input, { default: def }) on undefined or a string
parseBoolean(v, def) ==
    IF ~v.set THEN def
    ELSE IF trimLower(v) \in TRUE_SET THEN TRUE
    ELSE IF trimLower(v) \in FALSE_SET THEN FALSE
    ELSE def

isRecognizedAsWritten(v) ==
    v.set /\ ~v.padded /\ ~v.upper /\ v.text \in (TRUE_SET \cup FALSE_SET)

\* isRecognizedBooleanLiteral on undefined or a string
isRecognizedBooleanLiteral(v) == v.set /\ trimLower(v) \in (TRUE_SET \cup FALSE_SET)

\* the loop over LEGACY_VARS: the first variable that is defined (0: none)
RECURSIVE legacyHit(_, _)
legacyHit(e, i) ==
    IF i > Len(LEGACY_VARS) THEN 0
    ELSE IF e[LEGACY_VARS[i]].set THEN i
    ELSE legacyHit(e, i + 1)

\* resolveImmediateIndexingFromEnv(env)
resolveImmediateIndexingFromEnv(e) ==
    LET primaryRaw == e.IMMEDIATE_INDEXING_ENABLED
        primary == parseBoolean(primaryRaw, FALSE)
        hit == IF ~isRecognizedBooleanLiteral(primaryRaw) THEN legacyHit(e, 1) ELSE 0
    IN IF isRecognizedBooleanLiteral(primaryRaw)
       THEN [effective |-> primary, source |-> "IMMEDIATE_INDEXING_ENABLED"]
       ELSE IF hit # 0
            THEN [effective |-> parseBoolean(e[LEGACY_VARS[hit]], FALSE),
                  source |-> LEGACY_VARS[hit]]
            ELSE [effective |-> FALSE, source |-> "default"]

duplicateTriggerNeverSeen(triggered) == FALSE

\* onStartup's test of the module-level flag
duplicateTrigger(triggered) == triggered

\* one variable of the process environment is set, changed or deleted between
\* two startups
SetEnv(name, v) ==
    /\ env[name] # v
    /\ env' = [env EXCEPT ![name] = v]
    /\ UNCHANGED <<indexVars, searchVars, deletes, reindex, diskWritable, watcherVars,
                   embedding, walk, startupTriggered, startup>>

\* onStartup(server, config), whole: the background function runs up to its
\* await of server.reindexAll before onStartup returns
OnStartup ==
    /\ startup.calls < MaxStartups
    /\ LET flag == resolveImmediateIndexingFromEnv(env)
           invoke == flag.effective /\ ~duplicateTrigger(startupTriggered)
       IN /\ startupTriggered' = (startupTriggered \/ invoke)
          /\ startup' = [startup EXCEPT
                            !.calls = @ + 1,
                            !.flag = [resolved |-> TRUE, env |-> env,
                                      effective |-> flag.effective, source |-> flag.source],
                            !.invoked = invoke,
                            !.reindexAllCalls = IF invoke THEN @ + 1 ELSE @,
                            !.background = IF invoke THEN "running" ELSE @]
    /\ UNCHANGED <<indexVars, searchVars, deletes, reindex, diskWritable, watcherVars,
                   embedding, walk, env>>

\* the catch of the background function: the failure is logged, nothing is
\* rethrown into an onStartup call
caughtFailure(st) == [st EXCEPT !.background = "failed"]

\* server.reindexAll settles: the background function logs either way
ReindexAllSettles(ok) ==
    /\ startup.background = "running"
    /\ startup' = IF ok THEN [startup EXCEPT !.background = "completed"]
                  ELSE caughtFailure(startup)
    /\ UNCHANGED <<indexVars, searchVars, deletes, reindex, diskWritable, watcherVars,
                   embedding, walk, env, startupTriggered>>

InitStartup ==
    /\ EngineQuiet
    /\ now = 0
    /\ WatcherIdle
    /\ embedding = IdleEmbedding
    /\ walk = IdleWalk
    /\ env \in Envs
    /\ startupTriggered = FALSE
    /\ startup = IdleStartup

NextStartup ==
    \/ \E name \in DOMAIN NoEnv, v \in EnvValues : SetEnv(name, v)
    \/ OnStartup
    \/ \E ok \in BOOLEAN : ReindexAllSettles(ok)

SpecStartup == InitStartup /\ [][NextStartup]_vars

(***************************************************************************)
(* The admission gate under a stream of callers: waitForSlot polls every   *)
(* 100 ms, and a caller that arrives while a slot is free takes it without *)
(* waiting.                                                                *)
(***************************************************************************)
\* the caller of a settled indexFile drops its promise; the same caller, or
\* another one, may call again
Return(c) ==
    /\ calls[c].pc = "done"
    /\ \A d \in Calls : InFlight(d) => calls[d].leader # c
    /\ calls' = [calls EXCEPT ![c] = IdleCall]
    /\ UNCHANGED <<indexingQueue, currentConcurrency, incrementalState, stats, files, store,
                   config, batches, stateDoc, metaDoc>>
    /\ UNCHANGED <<searchVars, maintVars>>

InitGate ==
    /\ EngineQuiet
    /\ now = 0
    /\ HostInit

NextGate ==
    \/ \E p \in WatchedPaths : CallIndexFile(p)
    \/ \E c \in Calls : Admit(c)
    \/ \E c \in Calls : CheckFile(c)
    \/ \E c \in Calls : CheckNeeds(c)
    \/ \E c \in Calls : ReadFile(c)
    \/ \E c \in Calls : EmbedReturn(c, TRUE)
    \/ \E c \in Calls : UpsertReturn(c, TRUE)
    \/ \E c \in Calls : Return(c)

\* the timer of waitForSlot fires again and again, so a waiter that finds a
\* slot free from some poll on takes it; every admitted doIndexFile runs on
\* (the file system, the embedder and the store answer)
GateFairness ==
    \A c \in Calls :
       /\ WF_vars(Admit(c))
       /\ WF_vars(CheckFile(c))
       /\ WF_vars(CheckNeeds(c))
       /\ WF_vars(ReadFile(c))
       /\ WF_vars(EmbedReturn(c, TRUE))
       /\ WF_vars(UpsertReturn(c, TRUE))

SpecGate == InitGate /\ [][NextGate]_vars /\ GateFairness

(***************************************************************************)
(* indexFiles over engines of one or more slots.                           *)
(***************************************************************************)
\* largest config.indexing.maxConcurrency
MaxSlots == 2

\* the engine with indexFiles, for every batch size and number of slots
InitSlots ==
    /\ calls = [c \in Calls |-> IdleCall]
    /\ indexingQueue = [p \in Paths |-> 0]
    /\ currentConcurrency = 0
    /\ incrementalState = [p \in Paths |-> NoRecord]
    /\ stats = [totalFiles |-> 0, indexedFiles |-> 0, failedFiles |-> 0]
    /\ files = [p \in Paths |-> [exists |-> TRUE, mtime |-> 1, content |-> 1]]
    /\ store = [p \in Paths |-> NoRecord]
    /\ config \in [incrementalEnabled : {TRUE}, persistMetadata : {TRUE},
                   batchSize : 1..MaxBatchSize, validationEnabled : {TRUE},
                   maxConcurrency : 1..MaxSlots]
    /\ batches = [b \in Batches |-> IdleBatch]
    /\ stateDoc = [p \in Paths |-> NoRecord]
    /\ metaDoc = stats
    /\ now = 0
    /\ search = IdleSearch
    /\ isPurging = FALSE
    /\ lastPurgeTime = 0
    /\ purgeRuns = <<>>
    /\ purgeLog = NoPurgeLog
    /\ deletes = [d \in Deletes |-> IdleDelete]
    /\ reindex = IdleReindex
    /\ diskWritable = TRUE
    /\ HostInit
    /\ collectionExists = TRUE

SpecSlots == InitSlots /\ [][NextBatch]_vars

(***************************************************************************)
(* The purge over records of every kind of expiresAt, with persistence on  *)
(* or off, and a state document that may lag behind the map (doIndexFile   *)
(* writes the map, not the document).                                      *)
(***************************************************************************)
InitPurge ==
    /\ calls = [c \in Calls |-> IdleCall]
    /\ indexingQueue = [p \in Paths |-> 0]
    /\ currentConcurrency = 0
    /\ stats = [totalFiles |-> 0, indexedFiles |-> 0, failedFiles |-> 0]
    /\ files = [p \in Paths |-> [exists |-> TRUE, mtime |-> 1, content |-> 1]]
    /\ \E ea \in {toISOString(purgeIntervalMs + 1), toISOString(MaxTime), TextValue, AbsentValue},
          rb \in {NoRecord, SampleRecord(toISOString(purgeIntervalMs + 1))} :
          incrementalState = [p \in Paths |-> IF p = "a" THEN SampleRecord(ea)
                                              ELSE IF p = "b" THEN rb ELSE NoRecord]
    /\ store = [p \in Paths |-> IF incrementalState[p] # NoRecord
                                THEN SamplePoint(p, incrementalState[p].createdAt,
                                                 incrementalState[p].expiresAt)
                                ELSE NoRecord]
    /\ config \in [incrementalEnabled : {TRUE}, persistMetadata : BOOLEAN, batchSize : {1},
                   validationEnabled : {TRUE}, maxConcurrency : {1}]
    /\ batches = [b \in Batches |-> IdleBatch]
    /\ stateDoc \in {incrementalState, EmptyState}
    /\ metaDoc = stats
    /\ now = purgeIntervalMs
    /\ search = IdleSearch
    /\ isPurging = FALSE
    /\ lastPurgeTime = 0
    /\ purgeRuns = <<>>
    /\ purgeLog = NoPurgeLog
    /\ deletes = [d \in Deletes |-> IdleDelete]
    /\ reindex = IdleReindex
    /\ diskWritable = TRUE
    /\ HostInit
    /\ collectionExists = TRUE

SpecPurge == InitPurge /\ [][NextSearch]_vars

(***************************************************************************)
(* The store as a server of its own: it applies a request at one instant   *)
(* and its answer reaches the engine at a later one, so the answers of two *)
(* requests in flight may arrive in either order.                          *)
(***************************************************************************)
\* the store applies the upsert doIndexFile is waiting for
StoreUpserts(c) ==
    /\ calls[c].pc = "upsert"
    /\ store' = [store EXCEPT ![calls[c].path] = Payload(c)]
    /\ calls' = [calls EXCEPT ![c].pc = "acking"]
    /\ UNCHANGED <<indexingQueue, currentConcurrency, incrementalState, stats, files, config,
                   batches, stateDoc, metaDoc>>
    /\ UNCHANGED <<searchVars, maintVars>>

\* the acknowledgement of the upsert reaches doIndexFile
UpsertAcked(c) ==
    /\ calls[c].pc = "acking"
    /\ upsertAnswered(c, TRUE)
    /\ UNCHANGED <<files, store, config, stateDoc, metaDoc>>
    /\ UNCHANGED <<searchVars, maintVars>>

\* the store applies the delete deleteFileFromIndex is waiting for
StoreDeletes(d) ==
    /\ deletes[d].pc = "delete"
    /\ store' = withoutPoint(store, deletes[d].fileId)
    /\ deletes' = [deletes EXCEPT ![d].pc = "acking",
                      ![d].hadPoint = store[deletes[d].path] # NoRecord]
    /\ UNCHANGED <<calls, indexingQueue, currentConcurrency, incrementalState, stats, files,
                   config, batches, stateDoc, metaDoc, searchVars, reindex, diskWritable,
                   hostVars>>

\* the acknowledgement of the delete reaches deleteFileFromIndex
DeleteAcked(d) ==
    /\ deletes[d].pc = "acking"
    /\ deletes' = [deletes EXCEPT ![d].pc = "done", ![d].ok = TRUE,
                      ![d].hadRecord = incrementalState[deletes[d].path] # NoRecord]
    /\ deleteAnswered(d, TRUE)
    /\ UNCHANGED <<calls, indexingQueue, currentConcurrency, stats, files, store, config,
                   batches, metaDoc, searchVars, reindex, diskWritable, hostVars>>

InitRace ==
    /\ EngineQuiet
    /\ now = 0
    /\ HostInit

\* indexFile and deleteFileFromIndex of one path, their requests to the store
\* in flight together
NextRace ==
    \/ \E p \in IndexedPaths : CallIndexFile(p)
    \/ \E c \in Calls : CheckFile(c)
    \/ \E c \in Calls : CheckNeeds(c)
    \/ \E c \in Calls : ReadFile(c)
    \/ \E c \in Calls, ok \in BOOLEAN : EmbedReturn(c, ok)
    \/ \E c \in Calls : UpsertReturn(c, FALSE)
    \/ \E c \in Calls : StoreUpserts(c)
    \/ \E c \in Calls : UpsertAcked(c)
    \/ \E p \in IndexedPaths : StartDelete(p)
    \/ \E d \in Deletes : DeleteReturn(d, FALSE)
    \/ \E d \in Deletes : StoreDeletes(d)
    \/ \E d \in Deletes : DeleteAcked(d)

SpecRace == InitRace /\ [][NextRace]_vars

(***************************************************************************)
(* The start-up window: the constructor starts doInitializeExclusionSystem *)
(* and does not wait for it; this.fileMatcher is set when the exclusion    *)
(* configuration has been loaded.                                          *)
(***************************************************************************)
\* doInitializeExclusionSystem after the await of loadFromFile: the matcher is
\* set, or the failure is logged and the legacy patterns stay in use
ExclusionSystemSettles(ok) ==
    /\ walk.loading
    /\ walk' = [walk EXCEPT !.loading = FALSE, !.advanced = ok]
    /\ UNCHANGED <<indexVars, searchVars, deletes, reindex, diskWritable, watcherVars,
                   embedding, startupVars>>

\* doIndexFile(e) for a file of the tree, at its exclusion check: a file that is
\* not excluded goes on to be read, embedded and upserted
ExclusionCheck(e) ==
    /\ ~isDirectory(e)
    /\ e \notin walk.passed
    /\ ~shouldExcludeEntry(walk, e)
    /\ walk' = [walk EXCEPT !.passed = @ \cup {e}]
    /\ UNCHANGED <<indexVars, searchVars, deletes, reindex, diskWritable, watcherVars,
                   embedding, startupVars>>

\* the engine just constructed with useAdvancedExclusions on, over any rules
InitWindow ==
    /\ EngineQuiet
    /\ now = 0
    /\ WatcherIdle
    /\ embedding = IdleEmbedding
    /\ \E ex \in SUBSET TreeEntries, lg \in SUBSET TreeEntries :
          walk = [IdleWalk EXCEPT !.advanced = FALSE, !.loading = TRUE, !.readable = TreeDirs,
                                  !.excluded = ex, !.legacy = lg]
    /\ StartupIdle

NextWindow ==
    \/ \E ok \in BOOLEAN : ExclusionSystemSettles(ok)
    \/ \E e \in TreeEntries : ExclusionCheck(e)
    \/ StartGetAllFiles
    \/ \E ok \in BOOLEAN : GlobSettles(ok)
    \/ ReaddirSettles

SpecWindow == InitWindow /\ [][NextWindow]_vars

(***************************************************************************)
(* One file under two path strings.                                        *)
(***************************************************************************)
\* the file a path string names: "b" is a second spelling (relative against
\* absolute) of the file "a" names; the engine never resolves a path
realFile(p) == IF p = "b" THEN "a" ELSE p
SpelledPaths == {"a", "b"}

InitSpelling ==
    /\ EngineQuiet
    /\ now = 0
    /\ HostInit

NextSpelling ==
    \/ \E p \in SpelledPaths : CallIndexFile(p)
    \/ \E c \in Calls : Admit(c)
    \/ \E c \in Calls : CheckFile(c)
    \/ \E c \in Calls : CheckNeeds(c)
    \/ \E c \in Calls : ReadFile(c)
    \/ \E c \in Calls, ok \in BOOLEAN : EmbedReturn(c, ok)
    \/ \E c \in Calls, ok \in BOOLEAN : UpsertReturn(c, ok)

SpecSpelling == InitSpelling /\ [][NextSpelling]_vars

\* C24: two spellings of one file are one path: never two in-flight map
\* entries, never two FileRecords and never two vector entries for one file.
C24_OneFileOnePath ==
    \A p, q \in SpelledPaths : (p # q /\ realFile(p) = realFile(q)) =>
        /\ ~(indexingQueue[p] # 0 /\ indexingQueue[q] # 0)
        /\ ~(incrementalState[p] # NoRecord /\ incrementalState[q] # NoRecord)
        /\ ~(store[p] # NoRecord /\ store[q] # NoRecord)

(***************************************************************************)
(* The file watcher: inclusion overrides and debouncing.                   *)
(***************************************************************************)
\* C23: an add or change of a file that matches an inclusion override reaches
\* indexFile through the watcher although its folder is excluded: the event
\* leaves a timer set for the file.
C23_OverrideWatched ==
    [][\A f \in TreeFiles :
          (inclusionOverride(f) /\ changedAt'[f] # changedAt[f] /\ changedAt'[f] # NoTime)
              => debounceTimers'[f] # 0]_vars

C25_State ==
    \A f \in TreeFiles : Cardinality({t \in Timers : timers[t].pc = "pending"
                                                     /\ timers[t].file = f}) <= 1

C25_Step ==
    /\ \A t \in Timers : (timers[t].pc = "pending" /\ timers'[t].pc = "running") =>
           now = changedAt[timers[t].file] + debounceMs
    /\ \A f \in TreeFiles : deleteCalls'[f] # deleteCalls[f] =>
           /\ deleteCalls'[f] = deleteCalls[f] + 1
           /\ \A t \in Timers : ~(timers'[t].pc = "pending" /\ timers'[t].file = f)

\* C25: per file at most one indexFile call is pending, every call the watcher
\* makes is made debounceMs after the file's last add/change event, and an
\* unlink leaves no call pending for the file and calls deleteFileFromIndex once.
C25_Debounced == []C25_State /\ [][C25_Step]_vars

(***************************************************************************)
(* The length of the vectors generateEmbedding returns.                    *)
(***************************************************************************)
C26_State ==
    (embedding.pc = "done" /\ embedding.ok) =>
        LET v == embedding.result
            r == embedding.response.v
            n == embedding.dimensions
        IN /\ Len(v) = n
           /\ ~embedding.response.missing /\ Len(r) > 0
           /\ \A i \in 1..n : v[i] = IF i <= Len(r) THEN r[i] ELSE 0

C26_Step ==
    (embedding.pc = "request" /\ embedding' # embedding /\ emptyEmbedding(embedding'.response)) =>
        /\ embedding'.failures = embedding.failures + 1
        /\ ~(embedding'.pc = "done" /\ embedding'.ok)

\* C26: a vector generateEmbedding returns has exactly `dimensions` components:
\* the first `dimensions` of a longer answer, or a shorter answer followed by
\* zeros; an empty or missing answer is never returned and counts as a failed
\* attempt.
C26_ExactDimensions == []C26_State /\ [][C26_Step]_vars

C26_Witness ==
    /\ embedding.pc = "done" /\ embedding.ok
    /\ embedding.failures > 0
    /\ Len(embedding.response.v) < embedding.dimensions
    /\ embedding.dimensions > 1

(***************************************************************************)
(* What getIndexingStatus reports.                                         *)
(***************************************************************************)
\* C27: in every state getIndexingStatus reports
\* 0 <= currentConcurrency <= maxConcurrency and currentConcurrency <= queueSize,
\* queueSize being the number of distinct paths with an unsettled indexFile call.
C27_StatusBounds ==
    LET status == getIndexingStatus
    IN /\ 0 <= status.currentConcurrency
       /\ status.currentConcurrency <= status.maxConcurrency
       /\ status.currentConcurrency <= status.queueSize
       /\ status.queueSize = Cardinality({calls[c].path : c \in {d \in Calls : InFlight(d)}})

C27_Witness ==
    /\ getIndexingStatus.queueSize = 2
    /\ getIndexingStatus.currentConcurrency = 1
    /\ \E c \in Calls : calls[c].pc = "follow"

(***************************************************************************)
(* getAllFiles resolves whatever the tree is like.                         *)
(***************************************************************************)
\* C28: getAllFiles never rejects; when the directory cannot be read (or the
\* glob fails) it resolves to the empty list; and in advanced-exclusion mode
\* an unreadable subdirectory is skipped while the files found elsewhere are
\* still returned.
C28_NeverRejects ==
    /\ ~walk.rejected
    /\ walk.pc = "done" =>
          /\ (walk.advanced /\ "root" \notin walk.readable) => walk.result = <<>>
          /\ (~walk.advanced /\ (walk.globFailed \/ "root" \notin walk.readable)) =>
                walk.result = <<>>
          /\ (walk.advanced /\ "root" \in walk.readable) =>
                \A e \in {"root/f1", "root/f3"} :
                    e \notin walk.excluded => \E i \in DOMAIN walk.result : walk.result[i] = e
          /\ (walk.advanced /\ "root/sub" \notin walk.readable) =>
                \A i \in DOMAIN walk.result : walk.result[i] # "root/sub/f2"

C28_Witness ==
    /\ walk.pc = "done" /\ walk.advanced
    /\ "root" \in walk.readable /\ "root/sub" \notin walk.readable
    /\ walk.excluded = {}
    /\ walk.result = <<"root/f1", "root/f3">>

(***************************************************************************)
(* The startup trigger and the flag that enables it.                       *)
(***************************************************************************)
C29_State ==
    /\ startup.reindexAllCalls <= 1
    /\ ~startup.threw
    /\ startupTriggered <=> startup.reindexAllCalls = 1

C29_Step ==
    /\ startup'.calls = startup.calls + 1 =>
          /\ startup'.invoked <=> (startup'.flag.effective /\ ~startupTriggered)
          /\ startup'.reindexAllCalls = startup.reindexAllCalls + (IF startup'.invoked THEN 1 ELSE 0)
          /\ ~startup'.flag.effective => startupTriggered' = startupTriggered
          /\ startup'.invoked => startup'.background = "running"
    /\ startup'.calls = startup.calls =>
          /\ startup'.reindexAllCalls = startup.reindexAllCalls
          /\ startupTriggered' = startupTriggered

\* C29: over any sequence of onStartup calls server.reindexAll is invoked at
\* most once: by the first call that sees the flag enabled; a call that sees it
\* disabled invokes nothing and leaves the trigger unconsumed; every call
\* returns while reindexAll may still run, and never rejects with its failure.
C29_TriggerOnce == []C29_State /\ [][C29_Step]_vars

C29_Witness ==
    /\ startup.calls = MaxStartups /\ startup.reindexAllCalls = 1
    /\ startup.background = "failed"
    /\ startup.flag.effective /\ ~startup.invoked

\* C30: IMMEDIATE_INDEXING_ENABLED, when it holds a recognized boolean literal,
\* decides and is the source whatever the legacy variables hold; otherwise the
\* first defined of IMMEDIATE_INDEXING, START_INDEXING_ON_STARTUP decides and is
\* the source; otherwise the result is false with source 'default'.
C30_Precedence ==
    startup.flag.resolved =>
        LET e == startup.flag.env
            f == startup.flag
            literal(v) == v.set /\ v.text \in {"true", "false", "1", "0", "yes", "no", "on", "off"}
            truth(v) == v.set /\ v.text \in {"true", "1", "yes", "on"}
        IN IF literal(e.IMMEDIATE_INDEXING_ENABLED)
           THEN f.source = "IMMEDIATE_INDEXING_ENABLED"
                /\ f.effective = truth(e.IMMEDIATE_INDEXING_ENABLED)
           ELSE IF e.IMMEDIATE_INDEXING.set
                THEN f.source = "IMMEDIATE_INDEXING" /\ f.effective = truth(e.IMMEDIATE_INDEXING)
           ELSE IF e.START_INDEXING_ON_STARTUP.set
                THEN f.source = "START_INDEXING_ON_STARTUP"
                     /\ f.effective = truth(e.START_INDEXING_ON_STARTUP)
           ELSE f.source = "default" /\ ~f.effective

C30_Witness ==
    /\ startup.flag.resolved
    /\ startup.flag.env.IMMEDIATE_INDEXING_ENABLED = EnvString("off", TRUE, TRUE)
    /\ startup.flag.env.IMMEDIATE_INDEXING = EnvString("true", FALSE, FALSE)
    /\ startup.flag.source = "IMMEDIATE_INDEXING_ENABLED" /\ ~startup.flag.effective

(***************************************************************************)
(* Properties of the admission gate under fairness.                        *)
(***************************************************************************)

\* C31: if every admitted indexing operation eventually finishes, every
\* indexFile call blocked in waitForSlot is eventually admitted and eventually
\* settles, whatever the number and arrival order of competing callers.
C31_NoStarvation ==
    \A c \in Calls : (calls[c].pc = "waiting") ~> (calls[c].pc = "done")

(***************************************************************************)
(* The retry loop of generateEmbedding.                                    *)
(***************************************************************************)
C32_State ==
    LET e == embedding
        k == IF e.retries.set /\ e.retries.n > 0 THEN e.retries.n ELSE 2
    IN /\ e.attempts <= k
       /\ e.failures <= e.attempts
       /\ e.pc = "request" => (e.failures = e.attempts - 1 /\ e.sleeps = e.failures)
       /\ (e.pc = "done" /\ e.ok) => (e.failures = e.attempts - 1 /\ e.sleeps = e.failures)
       /\ (e.pc = "done" /\ ~e.ok) =>
             /\ e.attempts = k /\ e.failures = k
             /\ e.sleeps = k - 1
             /\ e.error.attempts = k
             /\ Len(e.causes) = k /\ e.error.message = e.causes[k]

C32_Step ==
    (embedding.pc = "request" /\ embedding'.pc = "done" /\ embedding'.ok) =>
        /\ embedding'.attempts = embedding.attempts
        /\ embedding'.sleeps = embedding.sleeps
        /\ ~emptyEmbedding(embedding'.response)

\* C32: generateEmbedding makes at most maxRetries requests (config.ollama.retries,
\* or 2 when that is 0 or unset), returns at the first answer that carries a
\* vector without a further request, sleeps after every failed attempt but the
\* last, and throws only after maxRetries failed attempts, with that count and
\* the message of the last failure.
C32_BoundedRetry == []C32_State /\ [][C32_Step]_vars

C32_Witness ==
    /\ embedding.pc = "done" /\ ~embedding.ok
    /\ ~embedding.retries.set
    /\ embedding.causes = <<"request failed", "Empty embedding response">>

(***************************************************************************)
(* The batch loop of indexFiles.                                           *)
(***************************************************************************)
\* the indexFile invocations indexFiles b made
C33_Issued(b) == {c \in Calls : calls[c].pc # "idle" /\ calls[c].parent = b}

C33_State ==
    \A b \in Batches :
       /\ Cardinality({c \in C33_Issued(b) : Admitted(c)})
             <= Min(config.batchSize, config.maxConcurrency)
       /\ Cardinality({c \in C33_Issued(b) : calls[c].pc # "done"}) <= config.batchSize

C33_Step ==
    \A b \in Batches, c \in Calls :
       (calls[c].pc = "idle" /\ calls'[c].pc # "idle" /\ calls'[c].parent = b)
       => \A d \in C33_Issued(b) : calls[d].pc = "done" /\ calls[d].outcome.settled

\* C33: indexFiles invokes indexFile for no file of a later batch before every
\* indexFile of the batches before it has settled, and at any time at most
\* min(batchSize, maxConcurrency) of the operations it started are past
\* waitForSlot and not yet past releaseSlot.
C33_BatchesInTurn == []C33_State /\ [][C33_Step]_vars

C33_Witness ==
    \E b \in Batches :
       /\ config.batchSize = 1 /\ config.maxConcurrency = 2
       /\ Len(batches[b].input) = 2 /\ batches[b].next = 3
       /\ \E c, d \in C33_Issued(b) :
             /\ calls[c].pc = "done" /\ ~calls[c].outcome.ok
             /\ Admitted(d)

(***************************************************************************)
(* What a purge run does to the FileRecords and to the state document.     *)
(***************************************************************************)
\* the record's expiresAt is a date string naming an instant before t
C34_Past(rec, t) == rec # NoRecord /\ rec.expiresAt.kind = "iso" /\ rec.expiresAt.t < t

C34_Step ==
    Len(purgeRuns') < Len(purgeRuns) =>
       IF purgeLog'.last = "completed"
       THEN /\ \A p \in Paths :
                  incrementalState'[p] = IF C34_Past(incrementalState[p], now) THEN NoRecord
                                         ELSE incrementalState[p]
            /\ IF (\E p \in Paths : C34_Past(incrementalState[p], now)) /\ config.persistMetadata
               THEN stateDoc' = incrementalState'
               ELSE stateDoc' = stateDoc
       ELSE /\ purgeLog'.last = "failed"
            /\ incrementalState' = incrementalState
            /\ stateDoc' = stateDoc

\* C34: a purge run that completes removes exactly the FileRecords whose
\* expiresAt parses to an instant before the sweep time (none whose expiresAt is
\* absent, unparseable or not yet past), rewrites the state document exactly when
\* it removed a record and persistence is on, and a run whose store delete
\* fails removes no FileRecord.
C34_PurgeSweep == [][C34_Step]_vars

C34_Witness ==
    /\ purgeLog.last = "completed" /\ purgeLog.swept = 1
    /\ incrementalState["a"] # NoRecord /\ incrementalState["a"].expiresAt = TextValue
    /\ incrementalState["b"] = NoRecord
    /\ config.persistMetadata /\ stateDoc = incrementalState

(***************************************************************************)
(* The file version a FileRecord describes (every write of a file gives it *)
(* a new content and a later modification time).                           *)
(***************************************************************************)
C35_State ==
    \A p \in Paths : incrementalState[p] # NoRecord =>
        \E f \in [exists : {TRUE}, mtime : 1..MaxMtime, content : 1..MaxMtime] :
           /\ f.content = f.mtime
           /\ incrementalState[p].checksum = generateFileChecksum(f.content)
           /\ incrementalState[p].lastModified = f.mtime

C35_Step ==
    \A c \in Calls :
       (calls[c].pc = "needs" /\ calls'[c].pc = "done" /\ calls'[c].result = "unchanged")
       => incrementalState[calls[c].path].checksum
             = generateFileChecksum(files[calls[c].path].content)

\* C35: the lastModified of p's FileRecord is the modification time of the file
\* version whose content was read and embedded, so an indexFile(p) that follows
\* a modification made while an earlier indexFile(p) was in flight is never
\* skipped as unchanged while the indexed content is not the file's content.
C35_RecordOfVersionRead == []C35_State /\ [][C35_Step]_vars

(***************************************************************************)
(* FileRecords and vector entries when the engine is at rest.              *)
(***************************************************************************)
\* no indexFile and no deleteFileFromIndex is in flight
C36_AtRest ==
    /\ \A c \in Calls : ~InFlight(c)
    /\ \A d \in Deletes : deletes[d].pc \in {"idle", "done"}

\* C36: whenever no operation of the engine is in flight, every path that has a
\* FileRecord has a vector entry under its identifier in the store, also after a
\* deleteFileFromIndex(p) ran beside an indexFile(p), in whatever order the store
\* applied the two requests and their answers arrived.
C36_RecordHasVector ==
    C36_AtRest =>
       \A p \in Paths : incrementalState[p] # NoRecord =>
           store[p] # NoRecord /\ store[p].id = generateFileId(p)

(***************************************************************************)
(* The timers FileWatcher has scheduled against its map of them.           *)
(***************************************************************************)
C37_State ==
    \A t \in Timers : timers[t].pc = "pending" => debounceTimers[timers[t].file] = t

C37_Step ==
    \A f \in TreeFiles : indexCalls'[f] # indexCalls[f] => changedAt[f] # NoTime

\* C37: every timeout FileWatcher has set and that has not fired is the one
\* debounceTimers holds for its path (so there is at most one per path), also
\* when an event arrives while the path's earlier indexFile call is running; and
\* no indexFile call is made for a path whose last event was an unlink.
C37_TimersRecorded == []C37_State /\ [][C37_Step]_vars

(***************************************************************************)
(* The state document against the map it is the copy of.                   *)
(***************************************************************************)

\* C38: with persistence on and a state directory that accepts writes, whenever
\* no operation of the engine is in flight an engine constructed over the state
\* document loads exactly the FileRecords the running engine holds, also after
\* an indexFile that was called directly.
C38_DocumentIsMap ==
    (engineIdle /\ config.persistMetadata /\ diskWritable)
       => loadIncrementalState(stateDoc) = incrementalState

(***************************************************************************)
(* Exclusion decisions taken while the exclusion configuration loads.      *)
(***************************************************************************)

\* C39: with advanced exclusions on, a file the advanced rules exclude is never
\* taken past doIndexFile's exclusion check and never enumerated by getAllFiles,
\* whether the call was made before or after the rules were loaded.
C39_SameDecision ==
    (walk.loading \/ walk.advanced) =>
       /\ \A e \in walk.passed : e \notin walk.excluded
       /\ walk.pc = "done" => \A i \in DOMAIN walk.result : walk.result[i] \notin walk.excluded

(***************************************************************************)
(* The vector entry of a file when indexFile resolves.                     *)
(***************************************************************************)
\* the step in which the indexFile call c on an existing file resolves leaves
\* an entry for the file in the store that the temporal filter keeps
C40_Step ==
    \A c \in Calls :
       (/\ calls[c].pc \notin {"idle", "done"}
        /\ calls'[c].pc = "done"
        /\ calls'[c].outcome = Resolved
        /\ files[calls[c].path].exists)
       => /\ store'[calls[c].path] # NoRecord
          /\ isFresh(store'[calls[c].path], now')

\* C40: whenever indexFile(p) resolves for an existing, non-excluded file, the
\* store then holds an entry for p that is not expired and passes the freshness
\* filter of search; a file whose entry has expired and whose modification time
\* is unchanged is embedded and upserted again, not skipped as unchanged.
C40_ResolvedMeansFresh == [][C40_Step]_vars
====
